---- MODULE Spec2Model ----
(***************************************************************************)
(* Decode-and-present pipeline of RtpDrmPlayer (V4L2 stateful decoder,     *)
(* DMA-heap buffer pools, DRM zero-copy display) and the buffered playback *)
(* loop of RTPPlayer, modelled from the C++ sources.                       *)
(*                                                                         *)
(* Slot indices are 0-based as in the code; TLA+ sequences are 1-based, so *)
(* slot i of a pool is buffers_[i + 1].                                    *)
(***************************************************************************)
EXTENDS Integers, Sequences, FiniteSets, TLC

\* ---------------------------------------------------------------- bounds
\* DecoderConfig::input_buffer_count / output_buffer_count are inputs of
\* initialize (defaults 6 and 4, config.h); the model runs small pools.
InputCount == 1
OutputCount == 2
\* how many times resetBuffers may run, and how many frames the decoder emits
MaxResets == 1
MaxFrames == 2
\* how many events the driver posts
MaxEvents == 1
\* how many frames the RTP receiver delivers
MaxArrivals == 7
\* how many times building a frame throws in the receiver
MaxThrows == 1
\* slots of the pool that is exercised on its own
PoolCount == 4
\* BufferObjects a client of the allocator holds, objects it may allocate,
\* and close() calls it may cause
MaxHeld == 2
MaxClientObjs == 3
MaxCloses == 3
\* bytes the decoder may write into the capture buffer that is examined
MaxWrites == 2
\* the ghost count of consecutive frame-less flush iterations saturates here
IdleCap == 21

\* ---------------------------------------------------- program constants
FlushMaxAttempts == 20
MAX_QUEUE_SIZE == 5
SampleWindow == 1024
SampleStride == 64
LumaPaint == 16
ChromaPaint == 128

\* descriptor numbers the kernel can hand out for DMA-buf objects
FdNums == 1..(InputCount + OutputCount)

VARIABLES
    \* --- V4L2DecoderImpl / V4L2Device / StreamingManager
    phase,                  \* ghost: "constructed", "ready", "failed", "destroyed"
    device_open,            \* V4L2Device::fd_ >= 0
    allocator_ready,        \* DmaBufAllocator::Impl::supported (heap fd open)
    state_,                 \* StreamingManager::state_
    decoder_ready,
    needs_reset,
    zero_copy_initialized,  \* sequence of BOOLEAN
    decoded_frame_count,
    frame_dims,             \* frame_width > 0 /\ frame_height > 0
    display_type,           \* "NONE" or "DRM_DMABUF"
    input_buffers_,         \* [buffers_, in_use_, current_buffer_]
    output_buffers_,
    display_manager,        \* [present, drm_fd_open, zero_copy_buffers]
    fp_display,             \* FrameProcessor::display_manager_ != nullptr
    \* --- flushDecoder's position
    pc,                     \* "idle" or "flush" (inside the drain loop)
    attempts,
    idle_polls,             \* ghost: consecutive drain iterations without a frame
    \* --- kernel: descriptors, mappings, DRM objects, the decoder's queues
    fd_table,               \* fd number -> buffer object id (0: not open)
    mappings,               \* buffer objects with a live CPU mapping
    close_log,              \* every close() on a DMA-buf fd: [obj, meant, by]
    next_obj,               \* next buffer object id
    drm,                    \* [open_fds, fbs, handles, scanout, next_id]
    vdev,                   \* [reqIn, reqOut, strmIn, strmOut, qIn, doneIn, qOut, doneOut, ev, err]
    \* --- ghost history
    nresets, nframes, nevents,
    enq_minus_deq,          \* ghost: input VIDIOC_QBUFs minus VIDIOC_DQBUFs since
                            \* the input pool was allocated or its usage reset
    out_held,               \* ghost: capture slots dequeued and not yet re-queued
    streamoff_fails,        \* whether VIDIOC_STREAMOFF fails during the running call
    last,                   \* the last pipeline operation: [op, ret, log, ...]
    \* --- RTPPlayer
    running_, has_sps_, decoded_frames_,
    frame_queue_,           \* sequence of frames [id, kind]
    mutex_owner,            \* frame_mutex_: "none", "dec" or "recv"
    cv_waiting,             \* the decoder thread is blocked inside frame_condition_.wait
    main_pc, dec_pc, recv_pc,
    recv_frame,             \* the frame onFrameReceived is about to push
    frame_to_decode,        \* decoderLoop's local: the frame taken from the queue
    accepted,               \* ghost: kinds of the non-empty frames delivered, in order
    taken,                  \* ghost: the frames passed to decodeData, in order
    frames_dropped,         \* the receiver's stats_.frames_dropped
    receiver_running,       \* UvgRTPReceiver::running_
    arrivals,               \* ghost: frames delivered so far
    \* --- a DmaBuffersManager on its own
    pool_,                  \* [buffers_, in_use_, current_buffer_], PoolCount slots
    pool_call,              \* the last call made on it: [op, index, ret]
    \* --- a client of the DmaBufAllocator on its own
    probe,                  \* a capture buffer and the presenter's verdict on it:
                            \* [y_size, bytesused, written, ret]
    client                  \* [bufs: its DmaBufInfo objects, op, k: its last call,
                            \*  unmapped: ghost, objects unmapped and not mapped since]

pipeVars == <<phase, device_open, allocator_ready, state_, decoder_ready, needs_reset,
              zero_copy_initialized, decoded_frame_count, frame_dims, display_type,
              input_buffers_, output_buffers_, display_manager, fp_display,
              pc, attempts, idle_polls, fd_table, mappings, close_log, next_obj,
              drm, vdev, nresets, nframes, nevents, enq_minus_deq, out_held, streamoff_fails, last,
              pool_, pool_call, client, probe>>
playerVars == <<running_, has_sps_, decoded_frames_, frame_queue_, mutex_owner,
                cv_waiting, main_pc, dec_pc, recv_pc, recv_frame, receiver_running,
                arrivals, frame_to_decode, accepted, taken, frames_dropped>>
vars == <<pipeVars, playerVars>>

\* The pipeline state as one record, so that a handler is the composition of
\* the calls it makes.
Cur ==
    [phase |-> phase, device_open |-> device_open, allocator_ready |-> allocator_ready,
     state_ |-> state_, decoder_ready |-> decoder_ready, needs_reset |-> needs_reset,
     zero_copy_initialized |-> zero_copy_initialized,
     decoded_frame_count |-> decoded_frame_count, frame_dims |-> frame_dims,
     display_type |-> display_type, input_buffers_ |-> input_buffers_,
     output_buffers_ |-> output_buffers_, display_manager |-> display_manager,
     fp_display |-> fp_display, pc |-> pc, attempts |-> attempts,
     idle_polls |-> idle_polls, fd_table |-> fd_table, mappings |-> mappings,
     close_log |-> close_log, next_obj |-> next_obj, drm |-> drm, vdev |-> vdev,
     nresets |-> nresets, nframes |-> nframes, nevents |-> nevents,
     enq_minus_deq |-> enq_minus_deq, out_held |-> out_held, streamoff_fails |-> streamoff_fails,
     last |-> last,
     ret |-> "true", log |-> <<>>]

Commit(s) ==
    /\ phase' = s.phase
    /\ device_open' = s.device_open
    /\ allocator_ready' = s.allocator_ready
    /\ state_' = s.state_
    /\ decoder_ready' = s.decoder_ready
    /\ needs_reset' = s.needs_reset
    /\ zero_copy_initialized' = s.zero_copy_initialized
    /\ decoded_frame_count' = s.decoded_frame_count
    /\ frame_dims' = s.frame_dims
    /\ display_type' = s.display_type
    /\ input_buffers_' = s.input_buffers_
    /\ output_buffers_' = s.output_buffers_
    /\ display_manager' = s.display_manager
    /\ fp_display' = s.fp_display
    /\ pc' = s.pc
    /\ attempts' = s.attempts
    /\ idle_polls' = s.idle_polls
    /\ fd_table' = s.fd_table
    /\ mappings' = s.mappings
    /\ close_log' = s.close_log
    /\ next_obj' = s.next_obj
    /\ drm' = s.drm
    /\ vdev' = s.vdev
    /\ nresets' = s.nresets
    /\ nframes' = s.nframes
    /\ nevents' = s.nevents
    /\ enq_minus_deq' = s.enq_minus_deq
    /\ out_held' = s.out_held
    /\ streamoff_fails' = FALSE
    /\ last' = s.last
    /\ UNCHANGED <<pool_, pool_call, client, probe>>

\* An entry of the operation log: what was done, to which pool, and the fact
\* recorded with it.
Emit(s, type, pool, flag) ==
    [s EXCEPT !.log = Append(@, [type |-> type, pool |-> pool, flag |-> flag])]
Ret(s, r) == [s EXCEPT !.ret = r]

\* Sequencing.  Let(v, K) is K applied to v (a name for an intermediate
\* state); Then(r, K) goes on with K unless the step that gave r failed or
\* threw, which is the code's "if (!step()) return false".
Let(v, K(_)) == K(v)
Then(r, K(_)) == IF r.ret = "true" THEN K(r) ELSE r

\* ------------------------------------------------------------------ kernel
\* close(2) on a DMA-buf descriptor number: closes whatever object holds the
\* number now; a number that is not open gives EBADF (obj 0 in the log).
KClose(s, fd, meant, by) ==
    [s EXCEPT !.fd_table[fd] = 0,
              !.close_log = Append(@, [obj |-> s.fd_table[fd], meant |-> meant, by |-> by])]

\* DMA_HEAP_IOCTL_ALLOC: the new descriptor gets the lowest free number.
FreeFds(s) == {n \in FdNums : s.fd_table[n] = 0}
LowestFree(s) == CHOOSE n \in FreeFds(s) : \A m \in FreeFds(s) : n <= m

\* VIDIOC_REQBUFS on queue q ("In": OUTPUT_MPLANE, "Out": CAPTURE_MPLANE).
\* A request for 0 buffers is refused while the queue streams (EBUSY).
KReqBufs(s, q, n, ok) ==
    IF ~s.device_open \/ (n > 0 /\ ~ok) THEN Ret(s, "false")
    ELSE IF q = "In"
    THEN IF s.vdev.strmIn THEN Ret(s, "false")
         ELSE Ret([s EXCEPT !.vdev.reqIn = (n > 0), !.vdev.qIn = {}, !.vdev.doneIn = <<>>], "true")
    ELSE IF s.vdev.strmOut THEN Ret(s, "false")
         ELSE Ret([s EXCEPT !.vdev.reqOut = (n > 0), !.vdev.qOut = {}, !.vdev.doneOut = <<>>,
                            !.out_held = {}], "true")

\* doneIn: indices of consumed input buffers, doneOut: [index, kind] of
\* filled capture buffers, both in completion order, waiting for DQBUF.
DriverOwnsIn(s, i) ==
    i \in s.vdev.qIn \/ \E k \in 1..Len(s.vdev.doneIn) : s.vdev.doneIn[k] = i
DriverOwnsOut(s, i) ==
    i \in s.vdev.qOut \/ \E k \in 1..Len(s.vdev.doneOut) : s.vdev.doneOut[k].index = i

\* VIDIOC_QBUF: refused unless the queue was set up and the slot is in
\* userspace hands.
KQBufIn(s, i) ==
    IF s.device_open /\ s.vdev.reqIn /\ i < InputCount /\ ~DriverOwnsIn(s, i)
    THEN Ret([s EXCEPT !.vdev.qIn = @ \cup {i}, !.enq_minus_deq = @ + 1], "true")
    ELSE Ret(s, "false")

\* A refused VIDIOC_QBUF is logged under "owned" when the slot it names is
\* in the driver's hands, under the slot's index otherwise.
KQBufOut(s, i) ==
    IF s.device_open /\ s.vdev.reqOut /\ i < OutputCount /\ ~DriverOwnsOut(s, i)
    THEN Ret(Emit([s EXCEPT !.vdev.qOut = @ \cup {i}, !.out_held = @ \ {i}],
                  "qbuf_out", ToString(i), TRUE), "true")
    ELSE Ret(Emit(s, "qbuf_out",
                  IF DriverOwnsOut(s, i) THEN "owned" ELSE ToString(i), FALSE), "false")

\* VIDIOC_STREAMOFF hands every buffer of the queue back to userspace and
\* clears the queue's error state.
KStreamOff(s, q) ==
    IF ~s.device_open \/ s.streamoff_fails THEN Emit(s, "streamoff", q, FALSE)
    ELSE IF q = "In"
    THEN Emit([s EXCEPT !.vdev.strmIn = FALSE, !.vdev.qIn = {}, !.vdev.doneIn = <<>>],
              "streamoff", q, TRUE)
    ELSE Emit([s EXCEPT !.vdev.strmOut = FALSE, !.vdev.qOut = {}, !.vdev.doneOut = <<>>,
                        !.vdev.err = FALSE, !.out_held = {}],
              "streamoff", q, TRUE)

KStreamOn(s, q, ok) ==
    IF ~s.device_open \/ ~ok THEN Ret(Emit(s, "streamon", q, FALSE), "false")
    ELSE IF q = "In" THEN Ret(Emit([s EXCEPT !.vdev.strmIn = TRUE], "streamon", q, TRUE), "true")
    ELSE Ret(Emit([s EXCEPT !.vdev.strmOut = TRUE], "streamon", q, TRUE), "true")

\* ------------------------------------------------------- DmaBufAllocator
NoBuf == [fd |-> -1, mapped_addr |-> FALSE, obj |-> 0]

\* DmaBufAllocator::Impl::allocate; ok = FALSE is a failing heap ioctl.
\* Returns the new state and the DmaBufInfo (fd = -1 on failure).
Allocator_allocate(s, ok) ==
    IF ~s.allocator_ready \/ ~ok \/ FreeFds(s) = {}
    THEN [s |-> s, info |-> NoBuf]
    ELSE [s |-> [s EXCEPT !.fd_table[LowestFree(s)] = s.next_obj, !.next_obj = @ + 1],
          info |-> [fd |-> LowestFree(s), mapped_addr |-> FALSE, obj |-> s.next_obj]]

\* DmaBufAllocator::Impl::deallocate: close(fd) when fd >= 0.
Allocator_deallocate(s, info, by) ==
    IF info.fd >= 0 THEN KClose(s, info.fd, info.obj, by) ELSE s

\* DmaBufAllocator::Impl::map; ok = FALSE is a failing mmap.
Allocator_map(s, info, ok) ==
    IF info.fd < 0 \/ ~ok
    THEN [s |-> s, info |-> info, ok |-> FALSE]
    ELSE [s |-> [s EXCEPT !.mappings = @ \cup {info.obj}],
          info |-> [info EXCEPT !.mapped_addr = TRUE], ok |-> TRUE]

\* DmaBufAllocator::Impl::unmap
Allocator_unmap(s, info) ==
    IF info.mapped_addr THEN [s EXCEPT !.mappings = @ \ {info.obj}] ELSE s

\* A client that holds MaxHeld empty DmaBufInfo objects and has called nothing.
NoClient ==
    [bufs |-> [k \in 1..MaxHeld |-> NoBuf], op |-> "none", k |-> 0, unmapped |-> {}]

\* No capture buffer set up yet for the content check on its own.
NoProbe == [y_size |-> 0, bytesused |-> 0, written |-> <<>>, ret |-> "none"]

\* ----------------------------------------------------- DmaBuffersManager
\* p names the pool: "input_buffers_" or "output_buffers_".
count(p) ==
    IF p = "input_buffers_" THEN InputCount
    ELSE IF p = "output_buffers_" THEN OutputCount
    ELSE PoolCount
queue(p) == IF p = "input_buffers_" THEN "In" ELSE "Out"

\* No call made yet on the pool exercised on its own.
NoPoolCall == [op |-> "none", index |-> -1, ret |-> -1]

EmptyPool(p) ==
    [buffers_ |-> <<>>, in_use_ |-> [k \in 1..count(p) |-> FALSE], current_buffer_ |-> 0]

RECURSIVE DeallocLoop(_, _, _)
DeallocLoop(p, s, k) ==
    IF k > Len(s[p].buffers_) THEN s
    ELSE LET b == s[p].buffers_[k]
             s1 == IF b.mapped_addr THEN Allocator_unmap(s, b) ELSE s
             s2 == IF b.fd >= 0 THEN Allocator_deallocate(s1, b, "pool") ELSE s1
         IN DeallocLoop(p, [s2 EXCEPT ![p].buffers_[k] = NoBuf], k + 1)

\* A deallocate that closes every descriptor and forgets nothing: the slots
\* keep their fd and the vector keeps its slots.
RECURSIVE CloseLoop(_, _, _)
CloseLoop(p, s, k) ==
    IF k > Len(s[p].buffers_) THEN s
    ELSE LET b == s[p].buffers_[k]
             s1 == IF b.mapped_addr THEN Allocator_unmap(s, b) ELSE s
             s2 == IF b.fd >= 0 THEN Allocator_deallocate(s1, b, "pool") ELSE s1
         IN CloseLoop(p, s2, k + 1)
deallocate_keeping(p, s) == Emit(CloseLoop(p, s, 1), "deallocate", p, FALSE)

\* Nothing of pool p is left with the device: its queue does not stream, was
\* released (VIDIOC_REQBUFS with count 0) and the driver owns none of its slots.
ReleasedOnDevice(p, s) ==
    IF p = "input_buffers_"
    THEN ~s.vdev.strmIn /\ ~s.vdev.reqIn /\ s.vdev.qIn = {} /\ s.vdev.doneIn = <<>>
    ELSE ~s.vdev.strmOut /\ ~s.vdev.reqOut /\ s.vdev.qOut = {} /\ s.vdev.doneOut = <<>>

\* Pool p holds at least one open descriptor.
HoldsFds(p, s) == \E k \in 1..Len(s[p].buffers_) : s[p].buffers_[k].fd >= 0

\* DmaBuffersManager::deallocate: unmap and close every slot, then clear both
\* vectors.  The "closing" entry tells whether the descriptors closed here were
\* out of the device's hands.
deallocate(p, s) ==
    Emit(Emit([DeallocLoop(p, s, 1) EXCEPT ![p].buffers_ = <<>>, ![p].in_use_ = <<>>],
              "closing", p, HoldsFds(p, s) => ReleasedOnDevice(p, s)),
         "deallocate", p, FALSE)

\* An allocate loop that returns on a failure without cleaning up.
RECURSIVE AllocLoop_leaving(_, _, _, _)
AllocLoop_leaving(p, s, i, o) ==
    IF i = count(p) THEN Ret(Emit(s, "allocate", p, FALSE), "true")
    ELSE LET a == Allocator_allocate(s, ~(o.at = i /\ o.kind = "alloc"))
             s1 == [a.s EXCEPT ![p].buffers_[i + 1] = a.info]
         IN IF a.info.fd < 0 THEN Ret(s1, "false")
            ELSE LET m == Allocator_map(s1, a.info, ~(o.at = i /\ o.kind = "map"))
                     s2 == [m.s EXCEPT ![p].buffers_[i + 1] = m.info]
                 IN IF ~m.ok THEN Ret(s2, "false")
                    ELSE AllocLoop_leaving(p, s2, i + 1, o)

\* o = [at, kind]: the slot at which the heap allocation ("alloc") or the
\* mapping ("map") fails; at = count(p) when nothing fails.
RECURSIVE AllocLoop(_, _, _, _)
AllocLoop(p, s, i, o) ==
    IF i = count(p) THEN Ret(Emit(s, "allocate", p, FALSE), "true")
    ELSE LET a == Allocator_allocate(s, ~(o.at = i /\ o.kind = "alloc"))
             s1 == [a.s EXCEPT ![p].buffers_[i + 1] = a.info]
         IN IF a.info.fd < 0 THEN Ret(deallocate(p, s1), "false")
            ELSE LET m == Allocator_map(s1, a.info, ~(o.at = i /\ o.kind = "map"))
                     s2 == [m.s EXCEPT ![p].buffers_[i + 1] = m.info]
                 IN IF ~m.ok THEN Ret(deallocate(p, s2), "false")
                    ELSE AllocLoop(p, s2, i + 1, o)

\* DmaBuffersManager::allocate
allocate(p, s, o) ==
    AllocLoop(p,
              [deallocate(p, s) EXCEPT
                  ![p] = [buffers_ |-> [k \in 1..count(p) |-> NoBuf],
                          in_use_ |-> [k \in 1..count(p) |-> FALSE],
                          current_buffer_ |-> 0],
                  !.enq_minus_deq = IF p = "input_buffers_" THEN 0 ELSE @],
              0, o)

AllocOutcomes(p) ==
    {[at |-> count(p), kind |-> "none"]}
        \cup {[at |-> i, kind |-> k] : i \in 0..(count(p) - 1), k \in {"alloc", "map"}}
AllocOk(p) == [at |-> count(p), kind |-> "none"]

\* A get_free_buffer_index that hands out the slot at current_buffer_
\* without looking at in_use_.
get_free_buffer_index_blind(p, s) == s[p].current_buffer_ % count(p)

\* A search that returns the lowest free slot, whatever the cursor.
FreeFrom_lowest(pool, n, i) ==
    IF \A k \in 0..(n - 1) : pool.in_use_[k + 1] THEN -1
    ELSE CHOOSE k \in 0..(n - 1) :
             ~pool.in_use_[k + 1] /\ \A j \in 0..(k - 1) : pool.in_use_[j + 1]

\* DmaBuffersManager::get_free_buffer_index (reads in_use_[idx] for idx < count_)
RECURSIVE FreeFrom(_, _, _)
FreeFrom(pool, n, i) ==
    IF i = n THEN -1
    ELSE IF ~pool.in_use_[((pool.current_buffer_ + i) % n) + 1]
         THEN (pool.current_buffer_ + i) % n
         ELSE FreeFrom(pool, n, i + 1)
get_free_buffer_index(p, s) == FreeFrom(s[p], count(p), 0)

\* A mark_in_use that only advances current_buffer_.
mark_in_use_forgetting(p, s, index) ==
    IF index < count(p)
    THEN [s EXCEPT ![p].current_buffer_ =
                       IF index = (@ % count(p)) THEN (index + 1) % count(p) ELSE @]
    ELSE s

\* A mark_in_use that never moves the cursor.
mark_in_use_pinned(p, s, index) ==
    IF index < count(p) THEN [s EXCEPT ![p].in_use_[index + 1] = TRUE] ELSE s

\* DmaBuffersManager::mark_in_use
mark_in_use(p, s, index) ==
    IF index < count(p)
    THEN [s EXCEPT ![p].in_use_[index + 1] = TRUE,
                   ![p].current_buffer_ =
                       IF index = (@ % count(p)) THEN (index + 1) % count(p) ELSE @]
    ELSE s

\* DmaBuffersManager::mark_free
mark_free(p, s, index) ==
    IF index < count(p) THEN [s EXCEPT ![p].in_use_[index + 1] = FALSE] ELSE s

\* A get_free_buffer_index that moves the cursor past the slot it returns.
get_free_buffer_index_call_advancing(p, s) ==
    [s |-> IF get_free_buffer_index(p, s) = -1 THEN s
           ELSE [s EXCEPT ![p].current_buffer_ =
                              (get_free_buffer_index(p, s) + 1) % count(p)],
     idx |-> get_free_buffer_index(p, s)]

\* A call of get_free_buffer_index: the object after the call and the index
\* returned.  The function assigns no member (92-102).
get_free_buffer_index_call(p, s) == [s |-> s, idx |-> get_free_buffer_index(p, s)]

\* DmaBuffersManager::reset_usage
reset_usage(p, s) ==
    [s EXCEPT ![p].in_use_ = [k \in 1..count(p) |-> FALSE], ![p].current_buffer_ = 0,
              !.enq_minus_deq = IF p = "input_buffers_" THEN 0 ELSE @]

\* A releaseOnDevice that leaves the queue as it is.
releaseOnDevice_skipping(p, s) ==
    Emit(Ret(s, "true"), "release", p, s.vdev.strmIn \/ s.vdev.strmOut)

\* DmaBuffersManager::requestOnDevice / releaseOnDevice
requestOnDevice(p, s, ok) ==
    Emit(KReqBufs(s, queue(p), count(p), ok), "request", p, FALSE)
releaseOnDevice(p, s) ==
    Emit(Ret(KReqBufs(s, queue(p), 0, TRUE), "true"), "release", p,
         s.vdev.strmIn \/ s.vdev.strmOut)

\* ------------------------------------------------------- StreamingManager
\* StreamingManager::queueOutputBuffer: get_info(index) is buffers_.at(index),
\* which throws when the pool holds no buffers.
queueOutputBuffer(s, index) ==
    IF index >= OutputCount THEN Ret(s, "false")
    ELSE IF index >= Len(s.output_buffers_.buffers_) THEN Ret(s, "throw")
    ELSE KQBufOut(s, index)

\* StreamingManager::queueOutputBuffers
RECURSIVE QueueFrom(_, _)
QueueFrom(s, i) ==
    IF i = OutputCount THEN Ret(s, "true")
    ELSE LET s1 == queueOutputBuffer(s, i)
         IN IF s1.ret = "true" THEN QueueFrom(s1, i + 1) ELSE s1
queueOutputBuffers(s) == QueueFrom(s, 0)

\* An enableStreaming that leaves the input queue streaming when the
\* stream-on of the output queue fails.
enableStreaming_no_rollback(s, son) ==
    LET s1 == KStreamOn(s, "In", son # "in")
    IN IF s1.ret # "true" THEN Ret(s1, "false")
       ELSE KStreamOn(s1, "Out", son # "out")

\* An enableStreaming that reports success whatever the stream-ons did.
enableStreaming_unchecked(s, son) ==
    Ret(KStreamOn(KStreamOn(s, "In", son # "in"), "Out", son # "out"), "true")

\* StreamingManager::enableStreaming; son names the stream-on that fails:
\* "in", "out" or "none".
enableStreaming(s, son) ==
    LET s1 == KStreamOn(s, "In", son # "in")
    IN IF s1.ret # "true" THEN Ret(s1, "false")
       ELSE LET s2 == KStreamOn(s1, "Out", son # "out")
            IN IF s2.ret # "true" THEN Ret(KStreamOff(s2, "In"), "false")
               ELSE Ret(s2, "true")

\* The state machine the streaming controller is meant to follow; a move
\* into ERROR is allowed from anywhere.
AllowedTransitions ==
    { <<"STOPPED", "STARTING">>, <<"STARTING", "ACTIVE">>, <<"ACTIVE", "STOPPING">>,
      <<"STOPPING", "STOPPED">>, <<"ERROR", "STARTING">> }

\* An assignment to state_.  A change is logged with the state it leaves and
\* whether the move is in AllowedTransitions or enters ERROR.
SetState(s, to) ==
    IF s.state_ = to THEN s
    ELSE Emit([s EXCEPT !.state_ = to], "state", s.state_,
              <<s.state_, to>> \in AllowedTransitions \/ to = "ERROR")

\* A start that goes through the whole sequence whatever the state is.
start_restarting(s, son) ==
    Let(queueOutputBuffers(SetState(s, "STARTING")), LAMBDA s1 :
    IF s1.ret = "throw" THEN s1
    ELSE IF s1.ret = "false" THEN Ret(SetState(s1, "ERROR"), "false")
    ELSE Let(enableStreaming(s1, son), LAMBDA s2 :
         IF s2.ret = "false" THEN Ret(SetState(s2, "ERROR"), "false")
         ELSE Emit(Ret(SetState(s2, "ACTIVE"), "true"),
                   "start", "", s2.vdev.strmIn /\ s2.vdev.strmOut)))

\* StreamingManager::start
start(s, son) ==
    IF s.state_ = "ACTIVE" THEN Ret(s, "true")
    ELSE Let(queueOutputBuffers(SetState(s, "STARTING")), LAMBDA s1 :
         IF s1.ret = "throw" THEN s1
         ELSE IF s1.ret = "false" THEN Ret(SetState(s1, "ERROR"), "false")
         ELSE Let(enableStreaming(s1, son), LAMBDA s2 :
              IF s2.ret = "false" THEN Ret(SetState(s2, "ERROR"), "false")
              ELSE Emit(Ret(SetState(s2, "ACTIVE"), "true"),
                        "start", "", s2.vdev.strmIn /\ s2.vdev.strmOut)))

\* A stop that streams the input queue off first.
stop_input_first(s) ==
    IF s.state_ = "STOPPED" THEN Ret(s, "true")
    ELSE Ret(SetState(KStreamOff(KStreamOff(SetState(s, "STOPPING"), "In"), "Out"),
                      "STOPPED"), "true")

\* StreamingManager::stop
stop(s) ==
    IF s.state_ = "STOPPED" THEN Ret(s, "true")
    ELSE Ret(SetState(KStreamOff(KStreamOff(SetState(s, "STOPPING"), "Out"), "In"),
                      "STOPPED"), "true")

\* StreamingManager::set_inactive
set_inactive(s) == SetState(s, "STOPPED")

\* StreamingManager::is_active
is_active(s) == s.state_ = "ACTIVE"

\* ------------------------------------------------ DrmDmaBufDisplayManager
NoDisplay ==
    [present |-> FALSE, drm_fd_open |-> FALSE, zero_copy_buffers |-> <<>>,
     presented |-> [i \in 0..(OutputCount - 1) |-> 0]]

\* DrmDmaBufDisplayManager::initialize (Impl::initializeDrm); o is "ok",
\* "no_device" (no card opens) or "late_fail" (a card was opened, then the
\* connector / encoder / CRTC search fails).
Display_initialize(s, o) ==
    IF o = "no_device" THEN Ret(s, "false")
    ELSE Ret([s EXCEPT !.display_manager.drm_fd_open = TRUE, !.drm.open_fds = @ + 1],
             IF o = "ok" THEN "true" ELSE "false")

CacheHit(s, dma_fd) ==
    \E k \in 1..Len(s.display_manager.zero_copy_buffers) :
        s.display_manager.zero_copy_buffers[k].dma_fd = dma_fd
CacheEntry(s, dma_fd) ==
    LET k == CHOOSE k \in 1..Len(s.display_manager.zero_copy_buffers) :
                 /\ s.display_manager.zero_copy_buffers[k].dma_fd = dma_fd
                 /\ \A j \in 1..(k - 1) :
                        s.display_manager.zero_copy_buffers[j].dma_fd # dma_fd
    IN s.display_manager.zero_copy_buffers[k]

\* A setup that imports without looking the descriptor up in the cache.
Display_setupZeroCopyBuffer_reimporting(s, dma_fd, import_ok) ==
    IF dma_fd < 0 \/ ~s.frame_dims \/ ~s.display_manager.drm_fd_open \/ ~import_ok
    THEN Ret(s, "false")
    ELSE Ret([s EXCEPT
                 !.display_manager.zero_copy_buffers =
                     Append(@, [dma_fd |-> dma_fd, fb_id |-> s.drm.next_id,
                                handle |-> s.drm.next_id, obj |-> s.fd_table[dma_fd]]),
                 !.drm.handles = @ \cup {s.drm.next_id},
                 !.drm.fbs = @ \cup {s.drm.next_id},
                 !.drm.next_id = @ + 1],
             "true")

\* Impl::setupZeroCopyBuffer; import_ok = FALSE is a failing PRIME import or
\* AddFB2 (the handle is closed again, nothing is kept).
Display_setupZeroCopyBuffer(s, dma_fd, import_ok) ==
    IF dma_fd < 0 \/ ~s.frame_dims THEN Ret(s, "false")
    ELSE IF CacheHit(s, dma_fd) THEN Ret(s, "true")
    ELSE IF ~s.display_manager.drm_fd_open \/ ~import_ok THEN Ret(s, "false")
    ELSE Ret([s EXCEPT
                 !.display_manager.zero_copy_buffers =
                     Append(@, [dma_fd |-> dma_fd, fb_id |-> s.drm.next_id,
                                handle |-> s.drm.next_id, obj |-> s.fd_table[dma_fd]]),
                 !.drm.handles = @ \cup {s.drm.next_id},
                 !.drm.fbs = @ \cup {s.drm.next_id},
                 !.drm.next_id = @ + 1],
             "true")

\* DrmDmaBufDisplayManager::displayFrame / Impl::displayZeroCopyFrame: the
\* mode-set makes the CRTC scan out the cached framebuffer's buffer object.
Display_displayFrame(s, dma_fd, flip_ok) ==
    IF dma_fd < 0 \/ ~CacheHit(s, dma_fd) \/ ~flip_ok THEN Ret(s, "false")
    ELSE Ret([s EXCEPT !.drm.scanout = CacheEntry(s, dma_fd).fb_id,
                       !.drm.scan_obj = CacheEntry(s, dma_fd).obj], "true")

\* Impl::cleanup: remove every framebuffer, close every handle, close the card.
Display_cleanup(s) ==
    [s EXCEPT
        !.drm.fbs = @ \ {s.display_manager.zero_copy_buffers[k].fb_id :
                            k \in 1..Len(s.display_manager.zero_copy_buffers)},
        !.drm.handles = @ \ {s.display_manager.zero_copy_buffers[k].handle :
                                k \in 1..Len(s.display_manager.zero_copy_buffers)},
        !.drm.open_fds = IF s.display_manager.drm_fd_open THEN @ - 1 ELSE @,
        !.display_manager.zero_copy_buffers = <<>>,
        !.display_manager.drm_fd_open = FALSE]

\* ~DrmDmaBufDisplayManager() = default, and Impl declares no destructor:
\* destroying the manager drops the object and calls nothing.
Display_destroy(s) == [s EXCEPT !.display_manager = NoDisplay]

\* --------------------------------------------------------- FrameProcessor
\* A dequeued capture buffer is [index, kind]; kind is what the presenter's
\* checks see: "good", "error" (V4L2_BUF_FLAG_ERROR) or "small" (bytesused
\* under half a frame).
FrameKinds == {"good", "error", "small"}

\* The zero-copy setup callback handed to the FrameProcessor by initialize.
zeroCopyCallback(s, index, import_ok) ==
    IF index >= Len(s.zero_copy_initialized) THEN s
    ELSE IF s.zero_copy_initialized[index + 1] \/ ~s.display_manager.present THEN s
    ELSE LET s1 == Display_setupZeroCopyBuffer(
                       s, s.output_buffers_.buffers_[index + 1].fd, import_ok)
         IN IF s1.ret = "true"
            THEN [s1 EXCEPT !.zero_copy_initialized[index + 1] = TRUE]
            ELSE s1

\* FrameProcessor::validateOutputBuffer
validateOutputBuffer(s, out_buf) ==
    /\ out_buf.index < OutputCount
    /\ out_buf.index < Len(s.output_buffers_.buffers_)
    /\ s.output_buffers_.buffers_[out_buf.index + 1].fd >= 0
    /\ s.output_buffers_.buffers_[out_buf.index + 1].mapped_addr
    /\ out_buf.kind # "error"

\* Ghost: count (up to 2) the times the display manager showed a slot.
MarkPresented(s, index) ==
    IF s.ret = "true"
    THEN [s EXCEPT !.display_manager.presented[index] = IF @ < 2 THEN @ + 1 ELSE @]
    ELSE s

\* FrameProcessor::displayFrame
displayFrame(s, out_buf, e) ==
    IF out_buf.kind = "small" THEN Ret(s, "false")
    ELSE LET s1 == IF s.display_type = "DRM_DMABUF"
                   THEN zeroCopyCallback(s, out_buf.index, e.import_ok)
                   ELSE s
         IN MarkPresented(
                Display_displayFrame(
                    s1, s1.output_buffers_.buffers_[out_buf.index + 1].fd, e.flip_ok),
                out_buf.index)

\* A presenter that refuses the re-queue of a buffer it rejects.
processDecodedFrame_rejecting(s, out_buf, e) ==
    IF ~validateOutputBuffer(s, out_buf) THEN Ret(s, "false")
    ELSE Ret(s, "true")

\* FrameProcessor::processDecodedFrame: always asks for the re-queue.
processDecodedFrame(s, out_buf, e) ==
    IF ~validateOutputBuffer(s, out_buf) THEN Ret(s, "true")
    ELSE LET s1 == [s EXCEPT !.decoded_frame_count = @ + 1]
         IN IF s1.fp_display /\ s1.frame_dims
            THEN Ret(displayFrame(s1, out_buf, e), "true")
            ELSE Ret(s1, "true")

\* ---------------------------------------------------------- V4L2DecoderImpl
\* V4L2DecoderImpl::requeueOutputBuffer
requeueOutputBuffer(s, out_buf) == KQBufOut(s, out_buf.index)

\* A source-change case that asks for the reset.
SourceChange_resetting(s) == [s EXCEPT !.needs_reset = TRUE]

\* handleV4L2Events 120-126: case V4L2_EVENT_SOURCE_CHANGE, with or without
\* V4L2_EVENT_SRC_CH_RESOLUTION: it prints; the reset is commented out.
SourceChange(s) == s

\* V4L2DecoderImpl::handleV4L2Events: drains the event queue.  The log entry
\* tells whether needs_reset, the controller state and both pools are what
\* they were before the event was handled.
handleV4L2Events(s) ==
    Let(SourceChange([s EXCEPT !.vdev.ev = FALSE]), LAMBDA r :
    Emit(r, "event", "",
         /\ r.needs_reset = s.needs_reset
         /\ r.state_ = s.state_
         /\ r.input_buffers_ = s.input_buffers_
         /\ r.output_buffers_ = s.output_buffers_))

\* Outcomes of setupDmaBufs: the step that fails ("ok": none).
SetupOk == [stage |-> "ok", at |-> 0, kind |-> "none"]
SetupOutcomes ==
    {SetupOk, [stage |-> "fmt", at |-> 0, kind |-> "none"],
     [stage |-> "req_in", at |-> 0, kind |-> "none"],
     [stage |-> "req_out", at |-> 0, kind |-> "none"]}
        \cup {[stage |-> "alloc_in", at |-> i, kind |-> k] :
                 i \in 0..(InputCount - 1), k \in {"alloc", "map"}}
        \cup {[stage |-> "alloc_out", at |-> i, kind |-> k] :
                 i \in 0..(OutputCount - 1), k \in {"alloc", "map"}}

PoolOutcome(p, stage, o) ==
    IF o.stage = stage THEN [at |-> o.at, kind |-> o.kind] ELSE AllocOk(p)

\* V4L2DecoderImpl::setupBuffers / setupDmaBufs
setupDmaBufs(s, o) ==
    LET s0 == Emit([s EXCEPT !.zero_copy_initialized = [k \in 1..OutputCount |-> FALSE]],
                   "realloc", "", \A n \in FdNums : s.fd_table[n] = 0)
    IN IF o.stage = "fmt" THEN Ret(s0, "false")
       ELSE Then(allocate("input_buffers_", s0,
                          PoolOutcome("input_buffers_", "alloc_in", o)), LAMBDA s1 :
            Then(requestOnDevice("input_buffers_", s1, o.stage # "req_in"), LAMBDA s2 :
            Then(allocate("output_buffers_", s2,
                          PoolOutcome("output_buffers_", "alloc_out", o)), LAMBDA s3 :
            requestOnDevice("output_buffers_", s3, o.stage # "req_out"))))

\* V4L2DecoderImpl::resetBuffers
resetBuffers(s, o) ==
    IF ~s.device_open THEN Ret(s, "false")
    ELSE Let(set_inactive(IF is_active(s) THEN stop(s) ELSE s), LAMBDA s1 :
         Let(Emit(s1, "stopped", "", s1.vdev.strmIn \/ s1.vdev.strmOut), LAMBDA s2 :
         Let(releaseOnDevice("output_buffers_",
                             releaseOnDevice("input_buffers_", s2)), LAMBDA s3 :
         Let(deallocate("output_buffers_",
                        deallocate("input_buffers_",
                                   reset_usage("input_buffers_", s3))), LAMBDA s5 :
         setupDmaBufs([s5 EXCEPT !.zero_copy_initialized = <<>>, !.nresets = @ + 1],
                      o)))))

\* close(2) on the decoder device: the driver drops both queues.
NoVdev ==
    [reqIn |-> FALSE, reqOut |-> FALSE, strmIn |-> FALSE, strmOut |-> FALSE,
     qIn |-> {}, doneIn |-> <<>>, qOut |-> {}, doneOut |-> <<>>,
     ev |-> FALSE, err |-> FALSE]
Device_close(s) == [s EXCEPT !.device_open = FALSE, !.vdev = NoVdev]

\* VIDIOC_DQBUF on the input queue until it reports nothing, mark_free each.
RECURSIVE DequeueInputs(_)
DequeueInputs(s) ==
    IF ~s.device_open \/ s.vdev.doneIn = <<>> THEN s
    ELSE DequeueInputs(mark_free("input_buffers_",
                                 [s EXCEPT !.vdev.doneIn = Tail(@),
                                           !.enq_minus_deq = @ - 1],
                                 Head(s.vdev.doneIn)))

\* An acquisition that, finding nothing, frees the slot under the cursor.
AcquireInput_freeing(s, e) ==
    IF get_free_buffer_index("input_buffers_", s) # -1
    THEN [s |-> s, idx |-> get_free_buffer_index("input_buffers_", s)]
    ELSE IF e.poll_fails \/ e.wait \notin s.vdev.qIn
    THEN [s |-> mark_free("input_buffers_",
                          Emit(s, "wait_in", "input_buffers_", FALSE),
                          s.input_buffers_.current_buffer_ % InputCount),
          idx |-> -1]
    ELSE [s |-> mark_free("input_buffers_",
                          Emit([s EXCEPT !.vdev.qIn = @ \ {e.wait},
                                         !.enq_minus_deq = @ - 1],
                               "wait_in", "input_buffers_", TRUE), e.wait),
          idx |-> e.wait]

\* decodeData 392-403: the free slot, or one freed by the 20 ms POLLOUT wait.
\* e.wait is the queued slot the hardware finishes during the wait (-1: none).
\* The log entry of the wait tells whether it yielded a completed buffer.
AcquireInput(s, e) ==
    IF get_free_buffer_index("input_buffers_", s) # -1
    THEN [s |-> s, idx |-> get_free_buffer_index("input_buffers_", s)]
    ELSE IF e.poll_fails \/ e.wait \notin s.vdev.qIn
    THEN [s |-> Emit(s, "wait_in", "input_buffers_", FALSE), idx |-> -1]
    ELSE [s |-> mark_free("input_buffers_",
                          Emit([s EXCEPT !.vdev.qIn = @ \ {e.wait},
                                         !.enq_minus_deq = @ - 1],
                               "wait_in", "input_buffers_", TRUE), e.wait),
          idx |-> e.wait]

\* VIDIOC_DQBUF on the capture queue (decodeData 484-491, flushDecoder
\* 572-580): the oldest filled buffer leaves the driver.  The log entry
\* tells whether every slot dequeued before was back in the driver.
DequeueOutput(s) ==
    Emit([s EXCEPT !.vdev.doneOut = Tail(@),
                   !.out_held = @ \cup {Head(s.vdev.doneOut).index}],
         "dqout", "", s.out_held = {})

\* One pass of a drain loop body after a successful poll with POLLIN:
\* dequeue the oldest filled capture buffer, present it, re-queue it.
TakeFrame(s, e) ==
    Then(processDecodedFrame(DequeueOutput(s), Head(s.vdev.doneOut), e), LAMBDA s1 :
         requeueOutputBuffer(s1, Head(s.vdev.doneOut)))

\* What ioctl(VIDIOC_DQBUF) on the capture queue does: "ok", "eagain"
\* (nothing to dequeue) or "fatal" (any other errno); e.dq_fatal is the
\* ioctl failing for another reason than EAGAIN.
DqbufOutcome(s, e) ==
    IF e.dq_fatal THEN "fatal" ELSE IF s.vdev.doneOut = <<>> THEN "eagain" ELSE "ok"

\* V4L2Device::dequeue_buffer: the bool it returns for each ioctl outcome.
V4L2Device_dequeue_buffer(outcome) == outcome = "ok"

\* A failed VIDIOC_DQBUF: the kernel's errno class goes to the log.
KDqBufFail(s, outcome) == Emit(s, "dqbuf_fail", outcome, TRUE)

\* decodeData 470-504: the do/while drain with a zero poll timeout.
RECURSIVE DrainOutput(_, _)
DrainOutput(s, e) ==
    IF e.poll_fails THEN Ret(s, "true")
    ELSE LET s1 == IF s.vdev.ev THEN handleV4L2Events(s) ELSE s
         IN IF s1.vdev.err
            THEN Ret(Emit([s1 EXCEPT !.needs_reset = TRUE], "pollerr", "", TRUE), "false")
            ELSE IF s1.vdev.doneOut # <<>>
            THEN IF V4L2Device_dequeue_buffer(DqbufOutcome(s1, e))
                 THEN DrainOutput(TakeFrame(s1, e), e)
                 ELSE Ret(KDqBufFail(s1, DqbufOutcome(s1, e)), "true")
            ELSE Ret(s1, "true")

\* A deferred reset that only clears the flag and restarts.
ResetAndRestart_skipping(s, e) ==
    Then(start(s, e.son), LAMBDA st : [st EXCEPT !.needs_reset = FALSE])

\* decodeData 351-363: the deferred reset and restart.
ResetAndRestart(s, e) ==
    Then(resetBuffers(s, e.setup), LAMBDA rb :
    Then(start(rb, e.son), LAMBDA st :
    [st EXCEPT !.needs_reset = FALSE]))

\* decodeData 418-436: the memcpy into the slot's mapping.  The log entry
\* records whether the slot was a legal target when it was written: marked
\* free, not in the driver's hands, and mapped.
CopyInto(s, idx) ==
    Emit(s, "copy", "input_buffers_",
         /\ ~s.input_buffers_.in_use_[idx + 1]
         /\ ~DriverOwnsIn(s, idx)
         /\ s.input_buffers_.buffers_[idx + 1].obj \in s.mappings)

\* decodeData 405-462: bounds checks, copy, VIDIOC_QBUF, mark_in_use.
EnqueueInput(s, idx) ==
    IF idx = -1 THEN Ret(s, "false")
    ELSE IF idx >= Len(s.input_buffers_.buffers_) THEN Ret(s, "throw")
    ELSE IF ~s.input_buffers_.buffers_[idx + 1].mapped_addr THEN Ret(s, "false")
    ELSE LET q == KQBufIn(CopyInto(s, idx), idx)
         IN IF q.ret # "true" THEN Ret(q, "false")
            ELSE Emit(mark_in_use("input_buffers_", q, idx),
                      "enqueue", "input_buffers_", q.needs_reset)

\* V4L2DecoderImpl::decodeData
decodeData(s, e) ==
    IF ~e.data_ok \/ ~s.device_open THEN Ret(s, "false")
    ELSE Then(IF s.needs_reset THEN ResetAndRestart(s, e) ELSE s, LAMBDA r :
         Let([r EXCEPT !.decoder_ready = TRUE], LAMBDA s1 :
         Then(IF is_active(s1) THEN s1 ELSE start(s1, e.son), LAMBDA s2 :
         Let(AcquireInput(DequeueInputs(s2), e), LAMBDA a :
         Then(EnqueueInput(a.s, a.idx), LAMBDA s3 :
         DrainOutput(s3, e))))))

\* A flush that stops streaming before it does anything else.
flushEnqueue_stopping(s, e) == Ret(stop(s), "false")

\* flushDecoder 507-553: up to the enqueue of the empty LAST buffer.  With
\* in_use_ emptied by a failed setup, get_free_buffer_index reads past the
\* vector: either a slot comes back and get_info throws, or -1 comes back
\* and the dequeue fails (e.ub picks).
flushEnqueue(s, e) ==
    IF ~s.device_open THEN Ret(s, "false")
    ELSE IF Len(s.input_buffers_.in_use_) # InputCount THEN Ret(s, e.ub)
    ELSE LET free == get_free_buffer_index("input_buffers_", s)
             s1 == IF free # -1 \/ s.vdev.doneIn = <<>> THEN s
                   ELSE mark_free("input_buffers_",
                                  [s EXCEPT !.vdev.doneIn = Tail(@),
                                            !.enq_minus_deq = @ - 1],
                                  Head(s.vdev.doneIn))
             idx == IF free # -1 THEN free
                    ELSE IF s.vdev.doneIn = <<>> THEN -1 ELSE Head(s.vdev.doneIn)
         IN IF idx = -1 THEN Ret(s1, "false")
            ELSE IF idx >= Len(s1.input_buffers_.buffers_) THEN Ret(s1, "throw")
            ELSE LET q == KQBufIn(s1, idx)
                 IN IF q.ret # "true" THEN Ret(q, "false")
                    ELSE Emit(mark_in_use("input_buffers_", q, idx),
                              "enqueue", "input_buffers_", q.needs_reset)

\* flushDecoder 557-591: the drain loop (attempts < 20).  A poll that fails
\* or times out touches nothing the hardware or a later iteration can see
\* but attempts, so a run of such polls is one step; the runs drawn are the
\* failing polls that exhaust the attempts and 20 timeouts in a row.  poll
\* returns true on a timeout as well, with no event bits set.
Saturate(n) == IF n < IdleCap THEN n ELSE IdleCap

flushIteration(s, e) ==
    IF e.poll_fails
    THEN [s EXCEPT !.attempts = FlushMaxAttempts,
                   !.idle_polls = Saturate(@ + (FlushMaxAttempts - s.attempts))]
    ELSE LET s1 == IF s.vdev.ev THEN handleV4L2Events(s) ELSE s
         IN IF s1.vdev.err
            THEN Ret(Emit([s1 EXCEPT !.pc = "idle", !.attempts = 0, !.idle_polls = 0],
                          "pollerr", "", TRUE), "false")
            ELSE IF s1.vdev.doneOut # <<>>
            THEN [Ret(TakeFrame(s1, e), "true") EXCEPT !.attempts = 0, !.idle_polls = 0]
            ELSE IF s.vdev.ev
            THEN [s1 EXCEPT !.idle_polls = Saturate(@ + 1)]
            ELSE [s1 EXCEPT !.idle_polls = Saturate(@ + FlushMaxAttempts)]

\* V4L2DecoderImpl::cleanup
cleanup(s) ==
    IF ~s.device_open THEN s
    ELSE LET s1 == IF is_active(s) THEN stop(s) ELSE s
             s2 == releaseOnDevice("output_buffers_", releaseOnDevice("input_buffers_", s1))
             s3 == deallocate("output_buffers_", deallocate("input_buffers_", s2))
             s4 == [s3 EXCEPT !.zero_copy_initialized = <<>>]
             s5 == IF s4.display_manager.present THEN Display_destroy(s4) ELSE s4
         IN [Device_close(s5) EXCEPT !.decoder_ready = FALSE, !.needs_reset = FALSE,
                                     !.frame_dims = FALSE]

\* ~V4L2DecoderImpl: cleanup(), then the members in reverse declaration
\* order: streaming_manager_, frame_processor_, display_manager,
\* output_buffers_, input_buffers_, dmabuf_allocator, device_.
destroy(s) ==
    LET c == cleanup(s)
        a == IF c.state_ = "ACTIVE" THEN stop(c) ELSE c
        d == IF a.display_manager.present THEN Display_destroy(a) ELSE a
        f == deallocate("input_buffers_", deallocate("output_buffers_", d))
    IN [Device_close(f) EXCEPT !.fp_display = FALSE, !.allocator_ready = FALSE,
                               !.phase = "destroyed"]

\* V4L2DecoderImpl::setupFormats; d is the display's initialize outcome.
setupFormats(s, fmt_ok, d) ==
    IF ~fmt_ok THEN Ret(s, "false")
    ELSE LET s1 == [s EXCEPT !.frame_dims = TRUE]
         IN IF s1.display_manager.present /\ s1.display_type # "NONE"
            THEN LET s2 == Display_initialize(s1, d)
                 IN IF s2.ret # "true" THEN Ret(Display_destroy(s2), "false") ELSE s2
            ELSE Ret(s1, "true")

\* V4L2DecoderImpl::initialize
initialize(s, e) ==
    LET s0 == [s EXCEPT !.input_buffers_ = EmptyPool("input_buffers_"),
                        !.output_buffers_ = EmptyPool("output_buffers_"),
                        !.state_ = "STOPPED"]
    IN IF ~e.dev_ok THEN Ret(s0, "false")
       ELSE IF ~e.heap_ok THEN Ret(s0, "false")
       ELSE LET s1 == [s0 EXCEPT !.device_open = TRUE, !.allocator_ready = TRUE,
                                 !.fp_display = s0.display_manager.present]
                s2 == setupFormats(s1, e.fmt_ok, e.disp)
            IN IF s2.ret # "true" THEN s2 ELSE setupDmaBufs(s2, e.setup)

\* V4L2DecoderImpl::setDisplay
setDisplay(s, d) ==
    LET s0 == [s EXCEPT !.display_type = "DRM_DMABUF",
                        !.display_manager = [NoDisplay EXCEPT !.present = TRUE]]
        s1 == IF s0.frame_dims THEN Display_initialize(s0, d) ELSE s0
    IN IF s1.ret # "true" THEN Ret(Display_destroy(s1), "false")
       ELSE Ret([s1 EXCEPT !.fp_display = IF s1.phase = "ready" THEN TRUE ELSE @], "true")

\* ------------------------------------------------------ operation history
HasEvent(log, type) == \E k \in 1..Len(log) : log[k].type = type

NoLast ==
    [op |-> "none", ret |-> "true", log |-> <<>>, pollerr |-> FALSE,
     after_pollerr |-> FALSE, dd_pollerr |-> FALSE]

\* last describes the call that returned in the step just taken; a step of
\* the hardware leaves only the memory of how the latest decodeData ended.
Elapsed(l) == [NoLast EXCEPT !.dd_pollerr = l.dd_pollerr]

\* Record a returned operation: its name, result and log, whether it met a
\* poll error, and whether the decodeData before it ended on one.
Finish(s, op) ==
    [s EXCEPT !.last =
        [op |-> op, ret |-> s.ret, log |-> s.log,
         pollerr |-> HasEvent(s.log, "pollerr"),
         after_pollerr |-> (op = "decodeData" /\ s.last.dd_pollerr),
         dd_pollerr |-> IF op = "decodeData" THEN HasEvent(s.log, "pollerr")
                        ELSE s.last.dd_pollerr]]

\* A step of flushDecoder; ret is "running" until it returns.
FlushStep(s, ret) ==
    [s EXCEPT !.last =
        [op |-> "flushDecoder", ret |-> ret, log |-> s.log,
         pollerr |-> HasEvent(s.log, "pollerr"),
         after_pollerr |-> FALSE, dd_pollerr |-> s.last.dd_pollerr]]

\* An H264Frame: id is its position among the non-empty frames delivered,
\* kind is KindOf its data.
NoFrame == [id |-> 0, kind |-> "none"]

\* Byte i (counted from 0, as the code does) of a frame's data.
ByteAt(data, i) == data[i + 1]

\* onFrameReceived 630-634: the length of the start code at offset i, 0 if
\* there is none. The four-byte form is only tried when a fifth byte exists.
StartCodeLen(data, i) ==
    IF /\ i + 4 < Len(data)
       /\ ByteAt(data, i) = 0 /\ ByteAt(data, i + 1) = 0
       /\ ByteAt(data, i + 2) = 0 /\ ByteAt(data, i + 3) = 1
    THEN 4
    ELSE IF ByteAt(data, i) = 0 /\ ByteAt(data, i + 1) = 0 /\ ByteAt(data, i + 2) = 1
         THEN 3
         ELSE 0

\* A scan that takes the byte after any start code for a parameter set.
ScanForSps_credulous(data, i) ==
    \E k \in i..(Len(data) - 4) : StartCodeLen(data, k) > 0

\* onFrameReceived 628-650: walk the bytes from offset i; at a start code,
\* look at the low five bits of the byte after it; 7 is an SPS.
RECURSIVE ScanForSps(_, _)
ScanForSps(data, i) ==
    IF ~(i + 3 < Len(data)) THEN FALSE
    ELSE IF StartCodeLen(data, i) > 0
         THEN IF /\ i + StartCodeLen(data, i) < Len(data)
                 /\ ByteAt(data, i + StartCodeLen(data, i)) % 32 = 7
              THEN TRUE
              ELSE ScanForSps(data, i + StartCodeLen(data, i))
         ELSE ScanForSps(data, i + 1)

\* The byte stream holds a NAL unit of type 7: a start-code prefix 00 00 01
\* followed by a header byte whose low five bits are 7.
ContainsSpsNal(data) ==
    \E i \in 0..(Len(data) - 4) :
        /\ ByteAt(data, i) = 0 /\ ByteAt(data, i + 1) = 0 /\ ByteAt(data, i + 2) = 1
        /\ ByteAt(data, i + 3) % 32 = 7

\* "sps" for an access unit that holds an SPS NAL unit, "slice" otherwise.
KindOf(data) == IF ContainsSpsNal(data) THEN "sps" ELSE "slice"

\* The access units the receiver delivers: empty; an SPS after a four-byte
\* start code; an SPS (nal_ref_idc 1) after a three-byte one; a slice
\* followed by an SPS; a slice; an SEI; a start code with no header byte;
\* bytes that hold 0x67 but no start code before it.
FrameData ==
    { <<>>,
      <<0, 0, 0, 1, 103>>,
      <<0, 0, 1, 39>>,
      <<0, 0, 0, 1, 65, 0, 0, 1, 103>>,
      <<0, 0, 0, 1, 65>>,
      <<0, 0, 1, 6>>,
      <<0, 0, 0, 1>>,
      <<103, 0, 0, 1>>,
      <<0, 0, 0, 103>> }

\* A push that keeps a full queue as it is, losing the new frame.
PushFrame_losing_newest(q, f) ==
    IF Len(q) >= MAX_QUEUE_SIZE THEN q ELSE Append(q, f)

\* onFrameReceived 655-658: pop the oldest frame of a full queue, push.
PushFrame(q, f) ==
    Append(IF Len(q) >= MAX_QUEUE_SIZE THEN Tail(q) ELSE q, f)

\* A pop that leaves the front frame in the queue.
PopFront_keeping(q) == q

\* decoderLoop 687: frame_queue_.pop() after the front was moved out.
PopFront(q) == Tail(q)

\* ------------------------------------------------------------ the pipeline
Init ==
    /\ phase = "constructed"
    /\ device_open = FALSE
    /\ allocator_ready = FALSE
    /\ state_ = "STOPPED"
    /\ decoder_ready = FALSE
    /\ needs_reset = FALSE
    /\ zero_copy_initialized = <<>>
    /\ decoded_frame_count = 0
    /\ frame_dims = FALSE
    /\ display_type = "NONE"
    /\ input_buffers_ = EmptyPool("input_buffers_")
    /\ output_buffers_ = EmptyPool("output_buffers_")
    /\ display_manager = NoDisplay
    /\ fp_display = FALSE
    /\ pc = "idle"
    /\ attempts = 0
    /\ idle_polls = 0
    /\ fd_table = [n \in FdNums |-> 0]
    /\ mappings = {}
    /\ close_log = <<>>
    /\ next_obj = 1
    /\ drm = [open_fds |-> 0, fbs |-> {}, handles |-> {}, scanout |-> 0,
              scan_obj |-> 0, next_id |-> 1]
    /\ vdev = NoVdev
    /\ nresets = 0
    /\ nframes = 0
    /\ nevents = 0
    /\ enq_minus_deq = 0
    /\ out_held = {}
    /\ streamoff_fails = FALSE
    /\ pool_ = EmptyPool("pool_")
    /\ pool_call = NoPoolCall
    /\ client = NoClient
    /\ probe = NoProbe
    /\ last = NoLast
    /\ running_ = FALSE
    /\ has_sps_ = FALSE
    /\ frame_queue_ = <<>>
    /\ mutex_owner = "none"
    /\ cv_waiting = FALSE
    /\ dec_pc = "not_started"
    /\ main_pc = "constructed"
    /\ recv_pc = "idle"
    /\ recv_frame = NoFrame
    /\ frame_to_decode = NoFrame
    /\ accepted = <<>>
    /\ taken = <<>>
    /\ frames_dropped = 0
    /\ decoded_frames_ = 0
    /\ receiver_running = FALSE
    /\ arrivals = 0

DisplayOutcomes == {"ok", "no_device", "late_fail"}

\* V4L2Decoder::initialize, called once on a fresh decoder.
Initialize ==
    /\ pc = "idle" /\ phase = "constructed"
    /\ \E dev_ok \in BOOLEAN, heap_ok \in BOOLEAN, fmt_ok \in BOOLEAN,
          disp \in (IF display_manager.present THEN DisplayOutcomes ELSE {"ok"}),
          setup \in SetupOutcomes :
          LET s == initialize(Cur, [dev_ok |-> dev_ok, heap_ok |-> heap_ok,
                                    fmt_ok |-> fmt_ok, disp |-> disp, setup |-> setup])
          IN Commit(Finish([s EXCEPT !.phase = IF s.ret = "true" THEN "ready"
                                                ELSE "failed"], "initialize"))
    /\ UNCHANGED playerVars

\* V4L2Decoder::setDisplay, called before initialize or right after it (as
\* RTPPlayer::initialize does).
SetDisplay ==
    /\ pc = "idle" /\ ~display_manager.present
    /\ phase = "constructed" \/ (phase = "ready" /\ last.op = "initialize")
    /\ \E d \in (IF frame_dims THEN DisplayOutcomes ELSE {"ok"}) :
          Commit(Finish(setDisplay(Cur, d), "setDisplay"))
    /\ UNCHANGED playerVars

\* The environment of one decodeData call; inputs that the call cannot read
\* in the current state are fixed.
QuietEnv ==
    [data_ok |-> TRUE, setup |-> SetupOk, son |-> "none", poll_fails |-> FALSE,
     wait |-> -1, import_ok |-> TRUE, flip_ok |-> TRUE, dq_fatal |-> FALSE]
DecodeEnv ==
    {[QuietEnv EXCEPT !.data_ok = FALSE]}
        \cup (IF vdev.doneOut # <<>> THEN {[QuietEnv EXCEPT !.dq_fatal = TRUE]} ELSE {})
        \cup (IF needs_reset
               THEN {[QuietEnv EXCEPT !.setup = o] : o \in SetupOutcomes \ {SetupOk}}
               ELSE {})
        \cup (IF needs_reset \/ state_ # "ACTIVE"
               THEN {[QuietEnv EXCEPT !.son = f] : f \in {"in", "out"}}
               ELSE {})
        \cup {[QuietEnv EXCEPT !.wait = w, !.poll_fails = pf, !.import_ok = io,
                                !.flip_ok = fo] :
                  w \in {-1} \cup vdev.qIn, pf \in BOOLEAN,
                  io \in (IF fp_display THEN BOOLEAN ELSE {TRUE}),
                  fo \in (IF fp_display THEN BOOLEAN ELSE {TRUE})}

\* V4L2Decoder::decodeData
DecodeData ==
    /\ pc = "idle" /\ phase \in {"constructed", "ready"}
    /\ needs_reset => nresets < MaxResets
    /\ \E e \in DecodeEnv : Commit(Finish(decodeData(Cur, e), "decodeData"))
    /\ UNCHANGED playerVars

\* V4L2Decoder::resetBuffers
ResetBuffers ==
    /\ pc = "idle" /\ phase = "ready"
    /\ nresets < MaxResets
    /\ \E o \in SetupOutcomes : Commit(Finish(resetBuffers(Cur, o), "resetBuffers"))
    /\ UNCHANGED playerVars

\* V4L2Decoder::flushDecoder up to its drain loop.
FlushBegin ==
    /\ pc = "idle" /\ phase \in {"constructed", "ready"}
    /\ \E ub \in (IF device_open /\ Len(input_buffers_.in_use_) # InputCount
                  THEN {"false", "throw"} ELSE {"false"}) :
          LET s == flushEnqueue(Cur, [ub |-> ub])
          IN IF s.ret = "true"
             THEN Commit(FlushStep([s EXCEPT !.pc = "flush", !.attempts = 0,
                                             !.idle_polls = 0], "running"))
             ELSE Commit(FlushStep(s, s.ret))
    /\ UNCHANGED playerVars

\* One iteration of flushDecoder's drain loop.
FlushIterate ==
    /\ pc = "flush" /\ attempts < FlushMaxAttempts
    /\ \E poll_fails \in BOOLEAN,
          import_ok \in (IF vdev.doneOut # <<>> /\ fp_display THEN BOOLEAN ELSE {TRUE}),
          flip_ok \in (IF vdev.doneOut # <<>> /\ fp_display THEN BOOLEAN ELSE {TRUE}) :
          LET s == flushIteration(Cur, [poll_fails |-> poll_fails,
                                        import_ok |-> import_ok, flip_ok |-> flip_ok])
          IN Commit(FlushStep(s, IF s.pc = "idle" THEN "false" ELSE "running"))
    /\ UNCHANGED playerVars

\* flushDecoder leaving its drain loop: attempts reached 20.
FlushFinish ==
    /\ pc = "flush" /\ attempts >= FlushMaxAttempts
    /\ Commit(FlushStep([Cur EXCEPT !.pc = "idle", !.attempts = 0, !.idle_polls = 0],
                         "true"))
    /\ UNCHANGED playerVars

\* ~V4L2Decoder
Teardown ==
    /\ pc = "idle" /\ phase # "destroyed"
    /\ Commit(Finish(destroy(Cur), "destroy"))
    /\ UNCHANGED playerVars

\* ------------------------------------------------- the decoder hardware
\* The hardware finishes a queued input buffer.
HwConsumeInput ==
    /\ vdev.strmIn
    /\ \E i \in vdev.qIn :
          vdev' = [vdev EXCEPT !.qIn = @ \ {i}, !.doneIn = Append(@, i)]
    /\ last' = Elapsed(last)
    /\ UNCHANGED <<phase, device_open, allocator_ready, state_, decoder_ready,
                   needs_reset, zero_copy_initialized, decoded_frame_count, frame_dims,
                   display_type, input_buffers_, output_buffers_, display_manager,
                   fp_display, pc, attempts, idle_polls, fd_table, mappings, close_log,
                   next_obj, drm, nresets, nframes, nevents, enq_minus_deq, out_held,
                   streamoff_fails, pool_, pool_call,
                   client, probe, playerVars>>

\* The hardware fills a queued capture buffer.
HwProduceFrame ==
    /\ vdev.strmOut /\ nframes < MaxFrames
    /\ \E i \in vdev.qOut, kind \in FrameKinds :
          vdev' = [vdev EXCEPT !.qOut = @ \ {i},
                               !.doneOut = Append(@, [index |-> i, kind |-> kind])]
    /\ nframes' = nframes + 1
    /\ last' = Elapsed(last)
    /\ UNCHANGED <<phase, device_open, allocator_ready, state_, decoder_ready,
                   needs_reset, zero_copy_initialized, decoded_frame_count, frame_dims,
                   display_type, input_buffers_, output_buffers_, display_manager,
                   fp_display, pc, attempts, idle_polls, fd_table, mappings, close_log,
                   next_obj, drm, nresets, nevents, enq_minus_deq, out_held,
                   streamoff_fails, pool_, pool_call,
                   client, probe, playerVars>>

\* The driver posts an event (source change, end of stream).
HwEvent ==
    /\ device_open /\ vdev.strmOut /\ ~vdev.ev /\ nevents < MaxEvents
    /\ vdev' = [vdev EXCEPT !.ev = TRUE]
    /\ nevents' = nevents + 1
    /\ last' = Elapsed(last)
    /\ UNCHANGED <<phase, device_open, allocator_ready, state_, decoder_ready,
                   needs_reset, zero_copy_initialized, decoded_frame_count, frame_dims,
                   display_type, input_buffers_, output_buffers_, display_manager,
                   fp_display, pc, attempts, idle_polls, fd_table, mappings, close_log,
                   next_obj, drm, nresets, nframes, enq_minus_deq, out_held,
                   streamoff_fails, pool_, pool_call,
                   client, probe, playerVars>>

\* The capture queue enters its error state: poll reports POLLERR.
HwError ==
    /\ device_open /\ ~vdev.err
    /\ vdev' = [vdev EXCEPT !.err = TRUE]
    /\ last' = Elapsed(last)
    /\ UNCHANGED <<phase, device_open, allocator_ready, state_, decoder_ready,
                   needs_reset, zero_copy_initialized, decoded_frame_count, frame_dims,
                   display_type, input_buffers_, output_buffers_, display_manager,
                   fp_display, pc, attempts, idle_polls, fd_table, mappings, close_log,
                   next_obj, drm, nresets, nframes, nevents, enq_minus_deq, out_held,
                   streamoff_fails, pool_, pool_call,
                   client, probe, playerVars>>

Next ==
    \/ Initialize
    \/ SetDisplay
    \/ DecodeData
    \/ ResetBuffers
    \/ FlushBegin
    \/ FlushIterate
    \/ FlushFinish
    \/ Teardown
    \/ HwConsumeInput
    \/ HwProduceFrame
    \/ HwEvent
    \/ HwError

Spec == Init /\ [][Next]_vars

\* ------------------------------------------- the streaming controller alone
\* V4L2DecoderImpl::startStreaming: StreamingManager::start called directly,
\* in whatever state the controller is.
StartStreaming ==
    /\ pc = "idle" /\ phase = "ready"
    /\ \E son \in {"none", "in", "out"} :
          Commit(Finish(start(Cur, son), "startStreaming"))
    /\ UNCHANGED playerVars

\* V4L2DecoderImpl::stopStreaming: StreamingManager::stop called directly.
StopStreaming ==
    /\ pc = "idle" /\ phase = "ready"
    /\ \E fails \in BOOLEAN :
          Commit(Finish(stop([Cur EXCEPT !.streamoff_fails = fails]), "stopStreaming"))
    /\ UNCHANGED playerVars

\* The streaming controller driven through its own interface, on a decoder
\* that was initialized and may be reset, with the hardware filling capture
\* buffers and raising errors.
NextStreaming ==
    \/ Initialize
    \/ StartStreaming
    \/ StopStreaming
    \/ ResetBuffers
    \/ HwProduceFrame
    \/ HwError

SpecStreaming == Init /\ [][NextStreaming]_vars

\* ------------------------------------------------- a buffer pool on its own
\* A DmaBuffersManager of PoolCount slots whose public slot-tracking
\* functions are called in any order with any index up to count_.
PoolObj == [pool_ |-> pool_]
OtherVars ==
    <<phase, device_open, allocator_ready, state_, decoder_ready, needs_reset,
      zero_copy_initialized, decoded_frame_count, frame_dims, display_type,
      input_buffers_, output_buffers_, display_manager, fp_display,
      pc, attempts, idle_polls, fd_table, mappings, close_log, next_obj,
      drm, vdev, nresets, nframes, nevents, enq_minus_deq, out_held, streamoff_fails,
      last, client, probe, playerVars>>

\* DmaBuffersManager::get_free_buffer_index
PoolGetFree ==
    /\ pool_' = get_free_buffer_index_call("pool_", PoolObj).s.pool_
    /\ pool_call' = [op |-> "get_free_buffer_index", index |-> -1,
                     ret |-> get_free_buffer_index_call("pool_", PoolObj).idx]
    /\ UNCHANGED OtherVars

\* DmaBuffersManager::mark_in_use
PoolMarkInUse ==
    /\ \E i \in 0..PoolCount :
          /\ pool_' = mark_in_use("pool_", PoolObj, i).pool_
          /\ pool_call' = [op |-> "mark_in_use", index |-> i, ret |-> -1]
    /\ UNCHANGED OtherVars

\* DmaBuffersManager::mark_free
PoolMarkFree ==
    /\ \E i \in 0..PoolCount :
          /\ pool_' = mark_free("pool_", PoolObj, i).pool_
          /\ pool_call' = [op |-> "mark_free", index |-> i, ret |-> -1]
    /\ UNCHANGED OtherVars

NextPool == PoolGetFree \/ PoolMarkInUse \/ PoolMarkFree
SpecPool == Init /\ [][NextPool]_vars

\* ------------------------------------------ a buffer pool used as decodeData does
\* A slot is selected with get_free_buffer_index and committed with
\* mark_in_use (decodeData 392, 461); a slot in use is given back with
\* mark_free when its buffer completes (decodeData 388-390).
PoolAcquire ==
    /\ get_free_buffer_index("pool_", PoolObj) # -1
    /\ pool_' = mark_in_use("pool_", PoolObj,
                            get_free_buffer_index("pool_", PoolObj)).pool_
    /\ pool_call' = [op |-> "acquire",
                     index |-> get_free_buffer_index("pool_", PoolObj), ret |-> -1]
    /\ UNCHANGED OtherVars

PoolReleaseSlot(i) ==
    /\ pool_.in_use_[i + 1]
    /\ pool_' = mark_free("pool_", PoolObj, i).pool_
    /\ pool_call' = [op |-> "release", index |-> i, ret |-> -1]
    /\ UNCHANGED OtherVars

PoolRelease == \E i \in 0..(PoolCount - 1) : PoolReleaseSlot(i)

NextPoolUse == PoolAcquire \/ PoolRelease

\* Selection goes on for ever and every slot in use is eventually freed.
SpecPoolUse ==
    /\ Init /\ [][NextPoolUse]_vars
    /\ WF_vars(PoolAcquire)
    /\ \A i \in 0..(PoolCount - 1) : WF_vars(PoolReleaseSlot(i))

\* --------------------------------------------------- the allocator on its own
\* A client calls the public DmaBufAllocator functions on DmaBufInfo objects
\* of its own, in any order.
AllocatorRest ==
    <<phase, device_open, state_, decoder_ready, needs_reset,
      zero_copy_initialized, decoded_frame_count, frame_dims, display_type,
      input_buffers_, output_buffers_, display_manager, fp_display,
      pc, attempts, idle_polls, drm, vdev, nresets, nframes, nevents,
      enq_minus_deq, out_held, streamoff_fails, last, pool_, pool_call, probe,
      playerVars>>

\* The allocator's and the kernel's part of state s written back.
AllocatorCommit(s) ==
    /\ allocator_ready' = s.allocator_ready
    /\ fd_table' = s.fd_table
    /\ mappings' = s.mappings
    /\ close_log' = s.close_log
    /\ next_obj' = s.next_obj
    /\ UNCHANGED AllocatorRest

\* Object b was passed to DmaBufAllocator::deallocate before.
AlreadyReleased(b) ==
    b.obj # 0 /\ \E j \in 1..Len(close_log) : close_log[j].meant = b.obj

\* DmaBufAllocator::initialize succeeding
AllocatorInitialize ==
    /\ ~allocator_ready
    /\ AllocatorCommit([Cur EXCEPT !.allocator_ready = TRUE])
    /\ client' = [client EXCEPT !.op = "initialize", !.k = 0]

\* DmaBufAllocator::allocate into the client's object k
AllocatorAllocate ==
    \E k \in 1..MaxHeld, ok \in BOOLEAN :
        /\ next_obj <= MaxClientObjs
        /\ client.bufs[k].fd < 0 \/ AlreadyReleased(client.bufs[k])
        /\ AllocatorCommit(Allocator_allocate(Cur, ok).s)
        /\ client' = [client EXCEPT !.bufs[k] = Allocator_allocate(Cur, ok).info,
                                    !.op = "allocate", !.k = k]

\* The descriptor number in b is open and is b's own object.
FdLive(b) == b.fd >= 0 /\ fd_table[b.fd] = b.obj

\* DmaBufAllocator::map of the client's object k; mmap can succeed only on
\* a live descriptor.
AllocatorMap ==
    \E k \in 1..MaxHeld, ok \in BOOLEAN :
        /\ ok => FdLive(client.bufs[k])
        /\ AllocatorCommit(Allocator_map(Cur, client.bufs[k], ok).s)
        /\ client' = [client EXCEPT !.bufs[k] = Allocator_map(Cur, client.bufs[k], ok).info,
                                    !.op = "map", !.k = k,
                                    !.unmapped = IF Allocator_map(Cur, client.bufs[k], ok).ok
                                                 THEN @ \ {client.bufs[k].obj} ELSE @]

\* DmaBufAllocator::unmap of the client's object k (it clears mapped_addr)
AllocatorUnmap ==
    \E k \in 1..MaxHeld :
        /\ AllocatorCommit(Allocator_unmap(Cur, client.bufs[k]))
        /\ client' = [client EXCEPT !.bufs[k].mapped_addr = FALSE,
                                    !.op = "unmap", !.k = k,
                                    !.unmapped = @ \cup ({client.bufs[k].obj} \ {0})]

\* DmaBufAllocator::deallocate of the client's object k (a const reference:
\* the object keeps its fd)
AllocatorRelease ==
    \E k \in 1..MaxHeld :
        /\ Len(close_log) < MaxCloses
        /\ AllocatorCommit(Allocator_deallocate(Cur, client.bufs[k], "client"))
        /\ client' = [client EXCEPT !.op = "release", !.k = k]

NextAllocator ==
    \/ AllocatorInitialize
    \/ AllocatorAllocate
    \/ AllocatorMap
    \/ AllocatorUnmap
    \/ AllocatorRelease
SpecAllocator == Init /\ [][NextAllocator]_vars

\* ------------------------------------------- the presenter's content check
\* Luma sizes (width * height), the offsets the decoder's writes are drawn
\* from, and the values it writes.
FrameSizes == {1024, 4096}
WritePositions == {0, 1, 2, 64, 65, 960, 961, 1023}
WriteValues == {16, 17, 128}
Min(a, b) == IF a < b THEN a ELSE b

\* setupDmaBufs 253-262: memset 16 over the luma plane, 128 over the chroma
\* planes; the rest of a fresh DMA-buf is zero.
Prepaint(y_size, pos) ==
    IF pos < y_size THEN LumaPaint
    ELSE IF pos < y_size + (y_size \div 2) THEN ChromaPaint
    ELSE 0

\* buffer[pos] of the examined capture buffer.
BufferByte(b, pos) ==
    IF pos \in DOMAIN b.written THEN b.written[pos] ELSE Prepaint(b.y_size, pos)

\* A content scan that looks at buffer[i] only.
has_content_single(b) ==
    \E i \in 0..(SampleWindow - 1) :
        /\ i % SampleStride = 0 /\ i < Min(SampleWindow, b.bytesused)
        /\ BufferByte(b, i) # 16

\* displayFrame 83-89: the loop that sets has_content.
has_content(b) ==
    \E i \in 0..(SampleWindow - 1) :
        /\ i % SampleStride = 0 /\ i < Min(SampleWindow, b.bytesused)
        /\ (BufferByte(b, i) # 16 \/ BufferByte(b, i + 1) # 16)

\* displayFrame 73-94: "small" (bytesused under half a frame), "blank" (no
\* content found) or "content" (the frame goes on to the display).
ContentVerdict(b) ==
    IF b.bytesused < ((b.y_size * 3) \div 2) \div 2 THEN "small"
    ELSE IF ~has_content(b) THEN "blank"
    ELSE "content"

ProbeRest ==
    <<phase, device_open, allocator_ready, state_, decoder_ready, needs_reset,
      zero_copy_initialized, decoded_frame_count, frame_dims, display_type,
      input_buffers_, output_buffers_, display_manager, fp_display,
      pc, attempts, idle_polls, fd_table, mappings, close_log, next_obj,
      drm, vdev, nresets, nframes, nevents, enq_minus_deq, out_held, streamoff_fails,
      last, pool_, pool_call, client, playerVars>>

\* setupDmaBufs pre-paints the buffer for a frame size.
ProbeSetup ==
    /\ \E ys \in FrameSizes : probe' = [NoProbe EXCEPT !.y_size = ys]
    /\ UNCHANGED ProbeRest

\* The decoder writes a byte of a picture into the buffer.
ProbeWrite ==
    /\ probe.y_size > 0
    /\ Cardinality(DOMAIN probe.written) < MaxWrites
    /\ \E pos \in WritePositions \ DOMAIN probe.written, v \in WriteValues :
          probe' = [probe EXCEPT !.written = (pos :> v) @@ @, !.ret = "none"]
    /\ UNCHANGED ProbeRest

\* The driver hands the buffer out with plane 0's bytesused: nothing, half
\* a frame, a frame.
ProbeDequeue ==
    /\ probe.y_size > 0
    /\ \E used \in {0, ((probe.y_size * 3) \div 2) \div 2, (probe.y_size * 3) \div 2} :
          probe' = [probe EXCEPT !.bytesused = used, !.ret = "none"]
    /\ UNCHANGED ProbeRest

\* FrameProcessor::displayFrame up to the content check.
ProbeDisplay ==
    /\ probe.y_size > 0
    /\ probe' = [probe EXCEPT !.ret = ContentVerdict(probe)]
    /\ UNCHANGED ProbeRest

NextPresenter == ProbeSetup \/ ProbeWrite \/ ProbeDequeue \/ ProbeDisplay
SpecPresenter == Init /\ [][NextPresenter]_vars

\* ---------------------------------------------------------------- RTPPlayer
\* RTPPlayer::initialize: the decoder, the display, the receiver.
PlayerInitialize ==
    /\ main_pc = "constructed" /\ phase = "constructed" /\ ~display_manager.present
    /\ \E dev_ok \in BOOLEAN, heap_ok \in BOOLEAN, fmt_ok \in BOOLEAN,
          setup \in SetupOutcomes, d \in DisplayOutcomes, recv_ok \in BOOLEAN :
          LET i == initialize(Cur, [dev_ok |-> dev_ok, heap_ok |-> heap_ok,
                                    fmt_ok |-> fmt_ok, disp |-> "ok", setup |-> setup])
              s1 == Finish([i EXCEPT !.phase = IF i.ret = "true" THEN "ready"
                                                ELSE "failed"], "initialize")
              s2 == Finish(setDisplay([s1 EXCEPT !.ret = "true", !.log = <<>>], d),
                           "setDisplay")
          IN IF s1.ret # "true"
             THEN Commit(s1) /\ main_pc' = "failed"
             ELSE /\ Commit(s2)
                  /\ main_pc' = IF s2.ret = "true" /\ recv_ok THEN "initialized"
                                ELSE "failed"
    /\ UNCHANGED <<running_, has_sps_, decoded_frames_, frame_queue_, mutex_owner,
                   cv_waiting, dec_pc, recv_pc, recv_frame, receiver_running, arrivals,
                   frame_to_decode, accepted, taken, frames_dropped>>

\* RTPPlayer::start up to the wait for Enter: the decoder thread is spawned
\* and the receiver started.
PlayerStart ==
    /\ main_pc = "initialized"
    /\ running_' = TRUE
    /\ dec_pc' = "sps_wait"
    /\ receiver_running' = TRUE
    /\ main_pc' = "started"
    /\ UNCHANGED <<pipeVars, has_sps_, decoded_frames_, frame_queue_, mutex_owner,
                   cv_waiting, recv_pc, recv_frame, arrivals,
                   frame_to_decode, accepted, taken, frames_dropped>>

\* RTPPlayer::stop, line 599: running_ = false, frame_mutex_ not held.
StopSetFlag ==
    /\ main_pc = "started"
    /\ running_' = FALSE
    /\ main_pc' = "stop_recv"
    /\ UNCHANGED <<pipeVars, has_sps_, decoded_frames_, frame_queue_, mutex_owner,
                   cv_waiting, dec_pc, recv_pc, recv_frame, receiver_running, arrivals,
                   frame_to_decode, accepted, taken, frames_dropped>>

\* rtp_receiver_->stop(): the stream is destroyed once no callback runs.
StopReceiver ==
    /\ main_pc = "stop_recv" /\ recv_pc = "idle"
    /\ receiver_running' = FALSE
    /\ main_pc' = "stop_notify"
    /\ UNCHANGED <<pipeVars, running_, has_sps_, decoded_frames_, frame_queue_,
                   mutex_owner, cv_waiting, dec_pc, recv_pc, recv_frame, arrivals,
                   frame_to_decode, accepted, taken, frames_dropped>>

\* frame_condition_.notify_all(): wakes the thread blocked in wait, if any.
StopNotify ==
    /\ main_pc = "stop_notify"
    /\ cv_waiting' = FALSE
    /\ dec_pc' = IF cv_waiting THEN "reacquire" ELSE dec_pc
    /\ main_pc' = "stop_join"
    /\ UNCHANGED <<pipeVars, running_, has_sps_, decoded_frames_, frame_queue_,
                   mutex_owner, recv_pc, recv_frame, receiver_running, arrivals,
                   frame_to_decode, accepted, taken, frames_dropped>>

\* decoder_thread_.join() returns when decoderLoop has returned.
StopJoin ==
    /\ main_pc = "stop_join" /\ dec_pc = "done"
    /\ main_pc' = "stopped"
    /\ UNCHANGED <<pipeVars, running_, has_sps_, decoded_frames_, frame_queue_,
                   mutex_owner, cv_waiting, dec_pc, recv_pc, recv_frame,
                   receiver_running, arrivals,
                   frame_to_decode, accepted, taken, frames_dropped>>

\* ~RTPPlayer after stop: the decoder is destroyed.
PlayerDestroy ==
    /\ main_pc \in {"stopped", "failed"}
    /\ Commit(Finish(destroy(Cur), "destroy"))
    /\ main_pc' = "destroyed"
    /\ UNCHANGED <<running_, has_sps_, decoded_frames_, frame_queue_, mutex_owner,
                   cv_waiting, dec_pc, recv_pc, recv_frame, receiver_running, arrivals,
                   frame_to_decode, accepted, taken, frames_dropped>>

\* UvgRTPReceiver::processFrame 125-152: building the H264Frame (or the
\* callback) throws; the catch block counts the frame as dropped and the
\* frame never reaches onFrameReceived's queue.
RecvThrow ==
    /\ receiver_running /\ recv_pc = "idle" /\ arrivals < MaxArrivals
    /\ frames_dropped < MaxThrows
    /\ frames_dropped' = frames_dropped + 1
    /\ arrivals' = arrivals + 1
    /\ UNCHANGED <<pipeVars, running_, has_sps_, decoded_frames_, frame_queue_,
                   mutex_owner, cv_waiting, main_pc, dec_pc, recv_pc, recv_frame,
                   receiver_running, frame_to_decode, accepted, taken>>

\* onFrameReceived 620-651: an empty frame is dropped; the SPS scan.
RecvFrame ==
    /\ receiver_running /\ recv_pc = "idle" /\ arrivals < MaxArrivals
    /\ \E d \in FrameData :
          /\ has_sps_' = IF d = <<>> \/ has_sps_ THEN has_sps_ ELSE ScanForSps(d, 0)
          /\ recv_frame' = IF d = <<>> THEN NoFrame
                            ELSE [id |-> Len(accepted) + 1, kind |-> KindOf(d)]
          /\ accepted' = IF d = <<>> THEN accepted ELSE Append(accepted, KindOf(d))
          /\ recv_pc' = IF d = <<>> THEN "idle" ELSE "push"
    /\ arrivals' = arrivals + 1
    /\ UNCHANGED <<pipeVars, running_, decoded_frames_, frame_queue_, mutex_owner,
                   cv_waiting, main_pc, dec_pc, receiver_running,
                   frame_to_decode, taken, frames_dropped>>

\* onFrameReceived 653-659: under frame_mutex_, drop the oldest frame of a
\* full queue, push the new one.
RecvPush ==
    /\ recv_pc = "push" /\ mutex_owner = "none"
    /\ frame_queue_' = PushFrame(frame_queue_, recv_frame)
    /\ recv_frame' = NoFrame
    /\ recv_pc' = "notify"
    /\ UNCHANGED <<pipeVars, running_, has_sps_, decoded_frames_, mutex_owner,
                   cv_waiting, main_pc, dec_pc, receiver_running, arrivals,
                   frame_to_decode, accepted, taken, frames_dropped>>

\* onFrameReceived 661: frame_condition_.notify_one().
RecvNotify ==
    /\ recv_pc = "notify"
    /\ cv_waiting' = FALSE
    /\ dec_pc' = IF cv_waiting THEN "reacquire" ELSE dec_pc
    /\ recv_pc' = "idle"
    /\ UNCHANGED <<pipeVars, running_, has_sps_, decoded_frames_, frame_queue_,
                   mutex_owner, main_pc, recv_frame, receiver_running, arrivals,
                   frame_to_decode, accepted, taken, frames_dropped>>

\* decoderLoop 668-671: leave the SPS wait once an SPS came or running_ fell.
DecSpsWait ==
    /\ dec_pc = "sps_wait" /\ ~(running_ /\ ~has_sps_)
    /\ dec_pc' = "loop"
    /\ UNCHANGED <<pipeVars, running_, has_sps_, decoded_frames_, frame_queue_,
                   mutex_owner, cv_waiting, main_pc, recv_pc, recv_frame,
                   receiver_running, arrivals,
                   frame_to_decode, accepted, taken, frames_dropped>>

\* decoderLoop 673: while (running_)
DecLoopTest ==
    /\ dec_pc = "loop"
    /\ dec_pc' = IF running_ THEN "lock" ELSE "done"
    /\ UNCHANGED <<pipeVars, running_, has_sps_, decoded_frames_, frame_queue_,
                   mutex_owner, cv_waiting, main_pc, recv_pc, recv_frame,
                   receiver_running, arrivals,
                   frame_to_decode, accepted, taken, frames_dropped>>

\* decoderLoop 678: take frame_mutex_ (also on the way out of wait).
DecLock ==
    /\ dec_pc \in {"lock", "reacquire"} /\ mutex_owner = "none"
    /\ mutex_owner' = "dec"
    /\ dec_pc' = "pred"
    /\ UNCHANGED <<pipeVars, running_, has_sps_, decoded_frames_, frame_queue_,
                   cv_waiting, main_pc, recv_pc, recv_frame, receiver_running, arrivals,
                   frame_to_decode, accepted, taken, frames_dropped>>

\* decoderLoop 679: wait(lock, pred) evaluates the predicate under the mutex.
DecPred ==
    /\ dec_pc = "pred"
    /\ dec_pc' = IF frame_queue_ # <<>> \/ ~running_ THEN "check" ELSE "wait"
    /\ UNCHANGED <<pipeVars, running_, has_sps_, decoded_frames_, frame_queue_,
                   mutex_owner, cv_waiting, main_pc, recv_pc, recv_frame,
                   receiver_running, arrivals,
                   frame_to_decode, accepted, taken, frames_dropped>>

\* condition_variable::wait: release the mutex and block, atomically.
DecWait ==
    /\ dec_pc = "wait"
    /\ mutex_owner' = "none"
    /\ cv_waiting' = TRUE
    /\ dec_pc' = "blocked"
    /\ UNCHANGED <<pipeVars, running_, has_sps_, decoded_frames_, frame_queue_,
                   main_pc, recv_pc, recv_frame, receiver_running, arrivals,
                   frame_to_decode, accepted, taken, frames_dropped>>

\* A spurious wake-up, which the condition variable permits and never owes.
DecSpurious ==
    /\ dec_pc = "blocked" /\ cv_waiting
    /\ cv_waiting' = FALSE
    /\ dec_pc' = "reacquire"
    /\ UNCHANGED <<pipeVars, running_, has_sps_, decoded_frames_, frame_queue_,
                   mutex_owner, main_pc, recv_pc, recv_frame, receiver_running, arrivals,
                   frame_to_decode, accepted, taken, frames_dropped>>

\* decoderLoop 681-688: leave when stopped and drained, else take the front.
DecCheck ==
    /\ dec_pc = "check"
    /\ mutex_owner' = "none"
    /\ IF ~running_ /\ frame_queue_ = <<>>
       THEN dec_pc' = "done" /\ UNCHANGED <<frame_queue_, frame_to_decode, frames_dropped>>
       ELSE /\ dec_pc' = "decode"
            /\ frame_to_decode' = Head(frame_queue_)
            /\ frame_queue_' = PopFront(frame_queue_)
    /\ UNCHANGED <<pipeVars, running_, has_sps_, decoded_frames_, cv_waiting,
                   main_pc, recv_pc, recv_frame, receiver_running, arrivals,
                   accepted, taken, frames_dropped>>

\* decoderLoop 694-709: decodeData on the frame (never empty here); an
\* exception is caught.
DecDecode ==
    /\ dec_pc = "decode"
    /\ needs_reset => nresets < MaxResets
    /\ \E e \in {x \in DecodeEnv : x.data_ok} :
          LET s == decodeData(Cur, e)
          IN /\ Commit(Finish(s, "decodeData"))
             /\ decoded_frames_' = IF s.ret = "true" THEN decoded_frames_ + 1
                                   ELSE decoded_frames_
    /\ taken' = Append(taken, frame_to_decode)
    /\ frame_to_decode' = NoFrame
    /\ dec_pc' = "loop"
    /\ UNCHANGED <<running_, has_sps_, frame_queue_, mutex_owner, cv_waiting,
                   main_pc, recv_pc, recv_frame, receiver_running, arrivals,
                   accepted, frames_dropped>>

NextPlayer ==
    \/ PlayerInitialize
    \/ PlayerStart
    \/ StopSetFlag
    \/ StopReceiver
    \/ StopNotify
    \/ StopJoin
    \/ PlayerDestroy
    \/ RecvThrow
    \/ RecvFrame
    \/ RecvPush
    \/ RecvNotify
    \/ DecSpsWait
    \/ DecLoopTest
    \/ DecLock
    \/ DecPred
    \/ DecWait
    \/ DecSpurious
    \/ DecCheck
    \/ DecDecode

SpecPlayer == Init /\ [][NextPlayer]_vars

\* ------------------------------------------------------------------ claims
ObjOpen(o) == \E n \in FdNums : fd_table[n] = o
Minted == 1..(next_obj - 1)
Closes(o) == Cardinality({k \in 1..Len(close_log) : close_log[k].obj = o})
OutSlots == {i \in 0..(OutputCount - 1) : i < Len(output_buffers_.buffers_)}
ScanoutSlots ==
    {i \in OutSlots : drm.scan_obj # 0 /\ output_buffers_.buffers_[i + 1].obj = drm.scan_obj}
CacheEntries ==
    {display_manager.zero_copy_buffers[k] : k \in 1..Len(display_manager.zero_copy_buffers)}
Enqueues(log) == {k \in 1..Len(log) : log[k].type = "enqueue"}

\* C1: a slot has one owner at a time; in particular the slot the latest
\* mode-set scans out is not at the same time queued on (owned by) the
\* decoder's capture queue.
C1_ScanoutNotQueued == \A i \in ScanoutSlots : ~DriverOwnsOut(Cur, i)

\* C2: every DMA-buf descriptor minted for a pool slot is closed exactly
\* once: every close is the pool's, hits an open descriptor and hits the
\* object it was meant for; no object is closed twice; an object is open
\* exactly until its close; once the decoder is destroyed every minted
\* object has been closed.
C2_ClosedOnceByPool ==
    /\ \A k \in 1..Len(close_log) :
          /\ close_log[k].by = "pool"
          /\ close_log[k].obj # 0
          /\ close_log[k].obj = close_log[k].meant
    /\ \A o \in Minted : Closes(o) <= 1 /\ (ObjOpen(o) <=> Closes(o) = 0)
    /\ phase = "destroyed" => \A o \in Minted : Closes(o) = 1

\* C2 witness: a decoder that allocated, reset once (so a second generation
\* was minted) and was destroyed, all descriptors closed.
C2_Witness ==
    /\ phase = "destroyed" /\ nresets = 1 /\ next_obj > 2 * (InputCount + OutputCount)
    /\ \A o \in Minted : Closes(o) = 1

\* C3: on return from a successful resetBuffers the display's framebuffer
\* cache holds no entry of a buffer of the deallocated generation, and no
\* zero-copy-initialized flag is set.
C3_ResetClearsCache ==
    last.op = "resetBuffers" /\ last.ret = "true" =>
        /\ \A c \in CacheEntries : ObjOpen(c.obj)
        /\ \A k \in 1..Len(zero_copy_initialized) : ~zero_copy_initialized[k]

\* C4: once the decoder is destroyed nothing stays held: no pool descriptor,
\* no mapping, no framebuffer, no imported handle, no display device and no
\* decoder device or heap descriptor.
C4_TeardownReleasesAll ==
    phase = "destroyed" =>
        /\ \A n \in FdNums : fd_table[n] = 0
        /\ mappings = {}
        /\ drm.fbs = {} /\ drm.handles = {} /\ drm.open_fds = 0
        /\ ~device_open /\ ~allocator_ready

\* C5: no input buffer is enqueued, by decodeData or by flushDecoder, at a
\* moment when needs_reset is true.
C5_NoEnqueueWhileReset ==
    last.op \in {"decodeData", "flushDecoder"} =>
        \A k \in Enqueues(last.log) : ~last.log[k].flag

\* C6: a call (decodeData or flushDecoder) whose poll reported an error
\* returns failure with needs_reset set.
C6_PollErrorSetsReset ==
    last.op \in {"decodeData", "flushDecoder"} /\ last.pollerr =>
        last.ret = "false" /\ needs_reset

\* The events of pat occur in log in this order (not necessarily adjacent),
\* all of them before position limit.
RECURSIVE InOrder(_, _, _, _, _)
InOrder(log, i, pat, j, limit) ==
    IF j > Len(pat) THEN TRUE
    ELSE IF i >= limit THEN FALSE
    ELSE IF log[i] = pat[j] THEN InOrder(log, i + 1, pat, j + 1, limit)
    ELSE InOrder(log, i + 1, pat, j, limit)

FullReset ==
    <<[type |-> "stopped", pool |-> "", flag |-> FALSE],
      [type |-> "release", pool |-> "input_buffers_", flag |-> FALSE],
      [type |-> "release", pool |-> "output_buffers_", flag |-> FALSE],
      [type |-> "deallocate", pool |-> "input_buffers_", flag |-> FALSE],
      [type |-> "deallocate", pool |-> "output_buffers_", flag |-> FALSE],
      [type |-> "allocate", pool |-> "input_buffers_", flag |-> FALSE],
      [type |-> "allocate", pool |-> "output_buffers_", flag |-> FALSE],
      [type |-> "start", pool |-> "", flag |-> TRUE]>>

\* C7: in the decodeData that follows a decodeData ended by a poll error,
\* the enqueue comes after the whole reset (streaming stopped, both queues
\* released, both pools deallocated and allocated again) and the restart,
\* and needs_reset is false at the enqueue.
C7_ResetBeforeEnqueue ==
    last.op = "decodeData" /\ last.after_pollerr =>
        \A k \in Enqueues(last.log) :
            ~last.log[k].flag /\ InOrder(last.log, 1, FullReset, 1, k)

\* C7 witness: such a decodeData went through and enqueued.
C7_Witness ==
    /\ last.op = "decodeData" /\ last.after_pollerr /\ last.ret = "true"
    /\ Enqueues(last.log) # {}

\* C8: once stop() has set running_ false and notified, the decoder thread
\* gets out of its wait; it is not left asleep on the condition variable
\* while stop() sits in join.
C8_JoinNotStuck == ~(main_pc = "stop_join" /\ dec_pc = "blocked" /\ cv_waiting)

\* C9: flushDecoder's drain loop has ended by the time 20 consecutive
\* iterations saw no frame, timeouts and event-only iterations included.
C9_DrainBounded ==
    pc = "flush" /\ idle_polls >= FlushMaxAttempts => attempts >= FlushMaxAttempts

\* C10: no step of flushDecoder changes the streaming controller's state
\* (nor the kernel's streaming flags).
C10_FlushKeepsStreaming ==
    [][last'.op = "flushDecoder" =>
          /\ state_' = state_
          /\ vdev'.strmIn = vdev.strmIn /\ vdev'.strmOut = vdev.strmOut]_vars

\* C10 witness: a flushDecoder that drained a frame and ran to its end on a
\* streaming decoder.
C10_Witness ==
    /\ last.op = "flushDecoder" /\ last.ret = "true"
    /\ state_ = "ACTIVE" /\ decoded_frame_count > 0

InUseCount(pool) == Cardinality({k \in 1..Len(pool.in_use_) : pool.in_use_[k]})

\* C11: while the decoder lives, the number of input buffers enqueued minus
\* the number dequeued since the input pool was last allocated or had its
\* usage reset equals the number of input slots marked in use.
C11_EnqueuedMinusDequeued ==
    phase # "destroyed" => enq_minus_deq = InUseCount(input_buffers_)

\* C11 witness: an input buffer was enqueued, consumed and dequeued again by
\* a later decodeData, which enqueued the next one.
C11_Witness ==
    /\ last.op = "decodeData" /\ last.ret = "true" /\ nframes > 0
    /\ enq_minus_deq = 1 /\ InUseCount(input_buffers_) = 1
    /\ decoded_frame_count > 0

InputInUseMatches ==
    \A i \in 0..(InputCount - 1) :
        i < Len(input_buffers_.in_use_) =>
            (input_buffers_.in_use_[i + 1] <=> DriverOwnsIn(Cur, i))
OutputInUseMatches ==
    \A i \in 0..(OutputCount - 1) :
        i < Len(output_buffers_.in_use_) =>
            (output_buffers_.in_use_[i + 1] <=> DriverOwnsOut(Cur, i))

\* C12: for every slot of both pools, in_use is true exactly when the
\* driver owns the slot's buffer (queued, or done and waiting for the
\* dequeue); in particular a queued output slot has in_use = true.
C12_InUseIffDriverOwned == InputInUseMatches /\ OutputInUseMatches

Copies(log) == {k \in 1..Len(log) : log[k].type = "copy"}

\* C13: every copy of access-unit bytes by decodeData goes into an input
\* slot that is marked free, is not owned by the driver at that moment and
\* has a live CPU mapping.
C13_CopyOnlyIntoFreeSlot ==
    last.op = "decodeData" => \A k \in Copies(last.log) : last.log[k].flag

\* C13 witness: on a decoder that already produced a frame, a decodeData
\* copied an access unit into a slot and enqueued it; every input slot is
\* now in use.
C13_Witness ==
    /\ last.op = "decodeData" /\ last.ret = "true" /\ Copies(last.log) # {}
    /\ decoded_frame_count > 0 /\ InUseCount(input_buffers_) = InputCount

\* ------------------------------------------------------------------- C14
\* The number of frames onFrameReceived has pushed so far: every accepted
\* frame except the one still waiting for frame_mutex_.
Pushed == Len(accepted) - (IF recv_frame = NoFrame THEN 0 ELSE 1)

\* True while the decoder thread has taken no frame out of the queue.
ConsumerPaused == taken = <<>> /\ frame_to_decode = NoFrame

\* C14: the frame queue never holds more than MAX_QUEUE_SIZE (5) frames and
\* is always the run of the most recently pushed frames, in arrival order:
\* a push onto a full queue removes exactly the oldest frame and appends the
\* new one. While the consumer is paused the queue is exactly the last
\* min(5, n) of the n frames pushed.
C14_QueueKeepsNewestFive ==
    /\ Len(frame_queue_) <= MAX_QUEUE_SIZE
    /\ \A k \in 1..Len(frame_queue_) :
          /\ frame_queue_[k].id = Pushed - Len(frame_queue_) + k
          /\ frame_queue_[k].id \in 1..Len(accepted)
          /\ frame_queue_[k].kind = accepted[frame_queue_[k].id]
    /\ ConsumerPaused =>
          Len(frame_queue_) = (IF Pushed < MAX_QUEUE_SIZE THEN Pushed ELSE MAX_QUEUE_SIZE)

\* Seven frames arrived and were pushed while the consumer took none: the
\* queue holds frames 3..7 in arrival order.
C14_Witness ==
    /\ Len(accepted) = 7 /\ Pushed = 7 /\ ConsumerPaused
    /\ [k \in 1..Len(frame_queue_) |-> frame_queue_[k].id] = <<3, 4, 5, 6, 7>>


\* ------------------------------------------------------------------- C15
\* C15: the frames passed to decodeData, in call order, are a subsequence of
\* the frames delivered to onFrameReceived that keeps their order: each is a
\* delivered frame, unchanged, and each was delivered later than the one
\* decoded before it, so none is reordered and none is decoded twice. The
\* frame the decoder thread holds for its next call continues the sequence.
C15_DecodedIsOrderedSubsequence ==
    /\ \A k \in 1..Len(taken) :
          /\ taken[k].id \in 1..Len(accepted)
          /\ taken[k].kind = accepted[taken[k].id]
          /\ \A j \in 1..(k - 1) : taken[j].id < taken[k].id
    /\ frame_to_decode # NoFrame =>
          /\ frame_to_decode.id \in 1..Len(accepted)
          /\ frame_to_decode.kind = accepted[frame_to_decode.id]
          /\ \A k \in 1..Len(taken) : taken[k].id < frame_to_decode.id

\* Two frames were decoded and a frame delivered between them was dropped
\* by the overflow policy.
C15_Witness ==
    /\ Len(taken) = 2
    /\ taken[2].id > taken[1].id + 1

\* ------------------------------------------------------------------- C16
\* True once an access unit holding an SPS NAL unit has been delivered.
SpsDelivered == \E k \in 1..Len(accepted) : accepted[k] = "sps"

\* C16: as long as no delivered access unit held an SPS NAL unit (type 7),
\* has_sps_ is false, every delivered frame is still enqueued under the drop
\* policy (the queue holds the last min(5, n) of the n frames pushed), and
\* the decoder thread has taken no frame and called decodeData on none.
C16_NoDecodeBeforeSps ==
    ~SpsDelivered =>
        /\ ~has_sps_
        /\ taken = <<>> /\ frame_to_decode = NoFrame
        /\ dec_pc \in {"not_started", "sps_wait", "loop", "done"}
        /\ Len(frame_queue_) = (IF Pushed < MAX_QUEUE_SIZE THEN Pushed ELSE MAX_QUEUE_SIZE)
        /\ \A k \in 1..Len(frame_queue_) : frame_queue_[k].id = Pushed - Len(frame_queue_) + k

\* Six frames without an SPS were delivered and pushed while the decoder
\* thread sat in its one-second sleep loop: the queue is full, one frame was
\* dropped, nothing was decoded.
C16_Witness ==
    /\ ~SpsDelivered /\ Pushed = 6 /\ Len(frame_queue_) = MAX_QUEUE_SIZE
    /\ dec_pc = "sps_wait" /\ running_ /\ ~has_sps_

\* ------------------------------------------------------------------- C17
\* C17: every access unit passed to decodeData holds an SPS NAL unit or was
\* delivered after one that does; none delivered before the first
\* SPS-carrying access unit reaches decodeData.
C17_NothingOlderThanSpsDecoded ==
    \A k \in 1..Len(taken) :
        \E j \in 1..taken[k].id : accepted[j] = "sps"

\* ------------------------------------------------------------------- C18
OutputDequeues(log) == {k \in 1..Len(log) : log[k].type = "dqout"}

EntriesFor(fd) ==
    {k \in 1..Len(display_manager.zero_copy_buffers) :
        display_manager.zero_copy_buffers[k].dma_fd = fd}

\* C19: for every output slot the display manager has shown at least once,
\* its cache holds exactly one framebuffer entry keyed by the slot's fd for
\* as long as the manager lives; no descriptor has two entries, so showing
\* a slot again neither adds an entry nor imports the buffer again.
C19_OneEntryPerPresentedSlot ==
    /\ \A i \in OutSlots :
          display_manager.presented[i] > 0 =>
              Cardinality(EntriesFor(output_buffers_.buffers_[i + 1].fd)) = 1
    /\ \A k \in 1..Len(display_manager.zero_copy_buffers) :
          Cardinality(EntriesFor(display_manager.zero_copy_buffers[k].dma_fd)) = 1

\* Slot 0 was shown twice by the same display manager; the cache has the
\* single entry made the first time.
C19_Witness ==
    /\ 0 \in OutSlots
    /\ display_manager.presented[0] = 2
    /\ Len(display_manager.zero_copy_buffers) = 1
    /\ display_manager.zero_copy_buffers[1].dma_fd = output_buffers_.buffers_[1].fd

\* ------------------------------------------------------------------- C20
StateChanges(log) == {k \in 1..Len(log) : log[k].type = "state"}

\* C20: every change of the streaming controller's state made by start,
\* stop or the set_inactive of resetBuffers is STOPPED -> STARTING,
\* STARTING -> ACTIVE, ACTIVE -> STOPPING, STOPPING -> STOPPED,
\* ERROR -> STARTING, or a move into ERROR.
C20_OnlyListedTransitions ==
    \A k \in StateChanges(last.log) : last.log[k].flag

\* ------------------------------------------------------------------- C21
\* The positions in a call's log where start() set the state to ACTIVE.
StartEvents(log) == {k \in 1..Len(log) : log[k].type = "start"}

\* The device operations logged just before position k are: VIDIOC_QBUF of
\* every output slot in index order, stream-on of the input queue, stream-on
\* of the output queue, all successful, then the move STARTING -> ACTIVE.
StartedInOrder(log, k) ==
    /\ k > OutputCount + 3
    /\ log[k - 1] = [type |-> "state", pool |-> "STARTING", flag |-> TRUE]
    /\ log[k - 2] = [type |-> "streamon", pool |-> "Out", flag |-> TRUE]
    /\ log[k - 3] = [type |-> "streamon", pool |-> "In", flag |-> TRUE]
    /\ \A i \in 0..(OutputCount - 1) :
          log[k - 3 - OutputCount + i] =
              [type |-> "qbuf_out", pool |-> ToString(i), flag |-> TRUE]

\* C21: the streaming controller becomes ACTIVE only in a start() that
\* queued every output slot, then streamed the input queue on, then the
\* output queue, all with success; both queues stream when ACTIVE is set.
C21_ActiveOnlyAfterFullStart ==
    /\ [](\A k \in StartEvents(last.log) :
             last.log[k].flag /\ StartedInOrder(last.log, k))
    /\ [][state_ # "ACTIVE" /\ state_' = "ACTIVE" => StartEvents(last'.log) # {}]_vars

\* A decodeData started streaming: the controller is ACTIVE, both queues
\* stream and every output slot is with the driver.
C21_Witness ==
    /\ last.op = "decodeData" /\ StartEvents(last.log) # {}
    /\ state_ = "ACTIVE" /\ vdev.strmIn /\ vdev.strmOut
    /\ \A i \in 0..(OutputCount - 1) : DriverOwnsOut(Cur, i)

\* ------------------------------------------------------------------- C22
\* The pipeline state without the record of the last call.
Pipeline == [Cur EXCEPT !.last = NoLast, !.streamoff_fails = FALSE]

\* C22: a start() called while the controller is ACTIVE returns true,
\* issues no device operation and changes nothing: the state stays ACTIVE
\* and the whole pipeline state is as before, so start; start leaves what a
\* single start leaves.
C22_StartWhileActiveIsNoOp ==
    [][state_ = "ACTIVE" /\ last'.op = "startStreaming" =>
          /\ last'.ret = "true"
          /\ last'.log = <<>>
          /\ state_' = "ACTIVE"
          /\ Pipeline' = Pipeline]_vars

\* A start() returned true on an ACTIVE controller without logging any
\* device operation or state change.
C22_Witness ==
    /\ last.op = "startStreaming" /\ last.ret = "true" /\ last.log = <<>>
    /\ state_ = "ACTIVE" /\ vdev.strmIn /\ vdev.strmOut

\* ------------------------------------------------------------------- C23
\* C23: the decoded-frame counter counts the capture buffers dequeued and
\* handed to the presenter: each decodeData and each flush step adds to it
\* the number of buffers it dequeued, whether or not they pass validation
\* or get displayed.
C23_CounterCountsDequeues ==
    [][last'.op \in {"decodeData", "flushDecoder"} =>
          decoded_frame_count' =
              decoded_frame_count + Cardinality(OutputDequeues(last'.log))]_vars

\* ------------------------------------------------------------------- C24
\* C24: every frame removed from a full frame queue to make room is counted
\* in frames_dropped: the push that pops the oldest frame raises the counter
\* by one (so 7 arrivals with the consumer paused leave frames_dropped = 2).
C24_OverflowIsCounted ==
    [][/\ recv_pc = "push" /\ recv_pc' # "push"
       /\ Len(frame_queue_) >= MAX_QUEUE_SIZE
       => frames_dropped' = frames_dropped + 1]_vars

\* ------------------------------------------------------------------- C25
Closings(log) == {k \in 1..Len(log) : log[k].type = "closing"}
Reallocations(log) == {k \in 1..Len(log) : log[k].type = "realloc"}

C26_ReadyOnlyAfterEnqueue ==
    [][/\ ~decoder_ready
       /\ last'.op = "decodeData" /\ last'.ret # "true"
       /\ Enqueues(last'.log) = {}
       => ~decoder_ready']_vars

\* ------------------------------------------------------------------- C27
\* The positions in a call's log of a failed stream-on of the output queue.
FailedOutStreamOn(log) ==
    {k \in 1..Len(log) : log[k] = [type |-> "streamon", pool |-> "Out", flag |-> FALSE]}

IsDeviceOp(ev) == ev.type \in {"qbuf_out", "streamon", "streamoff"}
DeviceOps(log) ==
    [k \in 1..Len(SelectSeq(log, IsDeviceOp)) |->
        <<SelectSeq(log, IsDeviceOp)[k].type, SelectSeq(log, IsDeviceOp)[k].pool>>]

\* C28: stop() returns true and leaves the controller STOPPED.  Called in
\* another state than STOPPED it issues the stream-off of the output queue,
\* then of the input queue, and nothing else, whether or not they succeed;
\* called in STOPPED it issues no device operation and changes nothing.
C28_StopIsBestEffort ==
    [][last'.op = "stopStreaming" =>
          /\ last'.ret = "true"
          /\ state_' = "STOPPED"
          /\ IF state_ = "STOPPED"
             THEN last'.log = <<>> /\ Pipeline' = Pipeline
             ELSE DeviceOps(last'.log) =
                      << <<"streamoff", "Out">>, <<"streamoff", "In">> >>]_vars

\* A stop() of an active controller whose two stream-offs both failed: it
\* returned true and the controller is STOPPED while the queues still stream.
C28_Witness ==
    /\ last.op = "stopStreaming" /\ last.ret = "true" /\ state_ = "STOPPED"
    /\ \E k \in 1..Len(last.log) :
          last.log[k] = [type |-> "streamoff", pool |-> "Out", flag |-> FALSE]
    /\ vdev.strmIn /\ vdev.strmOut

\* ------------------------------------------------------------------- C29
HandledEvents(log) == {k \in 1..Len(log) : log[k].type = "event"}
ResetSteps(log) ==
    {k \in 1..Len(log) : log[k].type \in {"stopped", "release", "deallocate", "realloc"}}

\* C29: handling a driver event leaves needs_reset, the controller state and
\* both pools as they were; a call entered with needs_reset false that
\* handled one and met no poll error ends with it false; and a decodeData
\* called with the event handled and needs_reset false performs no reset
\* step and, when it succeeds, has enqueued its access unit.
C29_SourceChangeIsIgnored ==
    /\ [](\A k \in HandledEvents(last.log) : last.log[k].flag)
    /\ [][(HandledEvents(last'.log) # {} /\ ~last'.pollerr /\ ~needs_reset => ~needs_reset')
          /\ (/\ nevents > 0 /\ ~vdev.ev /\ device_open /\ ~needs_reset
              /\ last'.op = "decodeData"
              => /\ ResetSteps(last'.log) = {}
                 /\ (last'.ret = "true" => Enqueues(last'.log) # {}))]_vars

\* A successful decodeData, later than the call that handled the event, that
\* enqueued without any reset step while the controller stayed ACTIVE.
C29_Witness ==
    /\ last.op = "decodeData" /\ last.ret = "true"
    /\ nevents > 0 /\ ~vdev.ev /\ device_open
    /\ HandledEvents(last.log) = {}
    /\ Enqueues(last.log) # {} /\ ResetSteps(last.log) = {}
    /\ ~needs_reset /\ state_ = "ACTIVE" /\ nresets = 0

\* ------------------------------------------------------------------- C30
FruitlessWaits(log) ==
    {k \in 1..Len(log) :
        log[k] = [type |-> "wait_in", pool |-> "input_buffers_", flag |-> FALSE]}

\* C30: a decodeData that found every input slot in use after its
\* non-blocking drain and got no completed buffer from the 20 ms wait
\* returns false, has enqueued nothing, and leaves the input pool's in_use_
\* flags and current_buffer_ as they were before the call.
C30_NoSlotFailsCleanly ==
    [][last'.op = "decodeData" /\ FruitlessWaits(last'.log) # {} =>
          /\ last'.ret = "false"
          /\ Enqueues(last'.log) = {}
          /\ \A k \in 1..InputCount : input_buffers_.in_use_[k]
          /\ input_buffers_'.in_use_ = input_buffers_.in_use_
          /\ input_buffers_'.current_buffer_ = input_buffers_.current_buffer_]_vars

\* A decodeData that failed for want of an input slot while streaming.
C30_Witness ==
    /\ last.op = "decodeData" /\ last.ret = "false"
    /\ FruitlessWaits(last.log) # {}
    /\ state_ = "ACTIVE" /\ ~needs_reset
    /\ \A k \in 1..InputCount : input_buffers_.in_use_[k]
    /\ vdev.qIn # {}

\* ------------------------------------------------------------------- C31
\* Slot i of the pool is marked in use.
PoolInUse(i) == pool_.in_use_[i + 1]
\* The slot d places after the cursor in the cyclic order.
CyclicSlot(d) == (pool_.current_buffer_ + d) % PoolCount

\* C31: get_free_buffer_index returns -1 exactly when every slot is in use,
\* and otherwise the first free slot in the cyclic order cursor, cursor+1,
\* ..., cursor+count-1 (mod count); mark_in_use(i) sets the cursor to
\* (i+1) mod count when i equals the cursor and leaves it otherwise.
C31_CyclicFirstFree ==
    /\ [](pool_call.op = "get_free_buffer_index" =>
            /\ (pool_call.ret = -1) = (\A i \in 0..(PoolCount - 1) : PoolInUse(i))
            /\ pool_call.ret # -1 =>
                 \E d \in 0..(PoolCount - 1) :
                    /\ pool_call.ret = CyclicSlot(d)
                    /\ ~PoolInUse(CyclicSlot(d))
                    /\ \A b \in 0..(d - 1) : PoolInUse(CyclicSlot(b)))
    /\ [][pool_call'.op = "mark_in_use" =>
            pool_'.current_buffer_ =
                IF pool_call'.index = pool_.current_buffer_
                THEN (pool_call'.index + 1) % PoolCount
                ELSE pool_.current_buffer_]_vars

\* A search that wrapped around: the cursor's slot and the one after it are
\* in use and the slot returned lies before the cursor.
C31_Witness ==
    /\ pool_call.op = "get_free_buffer_index"
    /\ pool_call.ret # -1 /\ pool_call.ret < pool_.current_buffer_
    /\ PoolInUse(CyclicSlot(0)) /\ PoolInUse(CyclicSlot(1))

\* ------------------------------------------------------------------- C32
\* C32: no slot is starved: when slots are selected and committed for ever
\* and every slot in use is eventually freed, every slot of the pool is
\* selected again and again.
C32_NoSlotStarved ==
    \A i \in 0..(PoolCount - 1) :
        []<>(pool_call.op = "acquire" /\ pool_call.index = i)

\* The last slot of the pool selected while the pool's other slots are free:
\* it was reached by the cursor, not by exhaustion.
C32_Witness ==
    /\ pool_call.op = "acquire" /\ pool_call.index = PoolCount - 1
    /\ \A i \in 0..(PoolCount - 2) : ~pool_.in_use_[i + 1]
    /\ pool_.current_buffer_ = 0

\* ------------------------------------------------------------------- C33
\* C33: get_free_buffer_index is a pure peek: a call leaves the in_use_
\* flags and the cursor as they were, and a call that follows another with
\* no mark_in_use or mark_free between them returns the same index.
C33_PeekIsPure ==
    [][pool_call'.op = "get_free_buffer_index" =>
          /\ pool_' = pool_
          /\ (pool_call.op = "get_free_buffer_index" =>
                 pool_call'.ret = pool_call.ret)]_vars

\* A peek that returned a free slot beyond the cursor, whose own slot is in
\* use: neither the cursor nor the flag of the returned slot has moved.
C33_Witness ==
    /\ pool_call.op = "get_free_buffer_index"
    /\ pool_call.ret # -1 /\ pool_call.ret # pool_.current_buffer_
    /\ PoolInUse(pool_.current_buffer_) /\ ~PoolInUse(pool_call.ret)

\* ------------------------------------------------------------------- C34
Pools == {"input_buffers_", "output_buffers_"}
\* Every slot of pool p is there, with a descriptor and a mapping.
PoolWhole(p, s) ==
    /\ Len(s[p].buffers_) = count(p)
    /\ \A k \in 1..count(p) : s[p].buffers_[k].fd >= 0 /\ s[p].buffers_[k].mapped_addr
\* No slot of pool p holds a descriptor or a mapping.
PoolBare(p, s) ==
    \A k \in 1..Len(s[p].buffers_) :
        s[p].buffers_[k].fd < 0 /\ ~s[p].buffers_[k].mapped_addr
\* What the call did last to pool p: "allocate" (a successful allocate
\* returned), "deallocate", or "none".
PoolEvents(log, p) ==
    {k \in 1..Len(log) : log[k].pool = p /\ log[k].type \in {"allocate", "deallocate"}}
LastPoolEvent(log, p) ==
    IF PoolEvents(log, p) = {} THEN "none"
    ELSE log[CHOOSE k \in PoolEvents(log, p) : \A j \in PoolEvents(log, p) : j <= k].type

\* C34: a pool is either whole (count slots, each with fd >= 0 and a
\* mapping) or bare (no slot with an fd or a mapping); it is whole when the
\* last thing a call did to it was a successful allocate, and bare when the
\* last thing was a deallocate, the clean-up of a failed allocate included.
C34_PoolWholeOrBare ==
    \A p \in Pools :
        /\ PoolWhole(p, Cur) \/ PoolBare(p, Cur)
        /\ LastPoolEvent(last.log, p) = "allocate" => PoolWhole(p, Cur)
        /\ LastPoolEvent(last.log, p) = "deallocate" => PoolBare(p, Cur)

\* An initialize whose output-pool allocate failed after it had allocated a
\* buffer: the input pool is whole, the output pool bare.
C34_Witness ==
    /\ last.op = "initialize" /\ last.ret = "false"
    /\ LastPoolEvent(last.log, "input_buffers_") = "allocate"
    /\ LastPoolEvent(last.log, "output_buffers_") = "deallocate"
    /\ next_obj > InputCount + 1
    /\ PoolWhole("input_buffers_", Cur) /\ output_buffers_.buffers_ = <<>>

\* ------------------------------------------------------------------- C35
\* C35: the allocator's release and unmap are idempotent: a release of an
\* object that was released before closes no descriptor, and an unmap of an
\* object that was unmapped before removes no mapping.
C35_ReleaseAndUnmapIdempotent ==
    [][/\ client'.op = "release" /\ AlreadyReleased(client.bufs[client'.k])
          => fd_table' = fd_table
       /\ client'.op = "unmap" /\ client.bufs[client'.k].obj \in client.unmapped
          => mappings' = mappings]_vars

\* ------------------------------------------------------------------- C36
FatalDequeues(log) ==
    {k \in 1..Len(log) : log[k].type = "dqbuf_fail" /\ log[k].pool = "fatal"}

\* C36: a fatal dequeue error met while draining completions is told apart
\* from an empty queue: the call that met it does not end as it ends on an
\* empty queue, with success and nothing flagged.
C36_FatalDequeueIsNoticed ==
    FatalDequeues(last.log) # {} => last.ret # "true" \/ needs_reset

\* ------------------------------------------------------------------- C37
\* The stride-64 positions within the first 1 KiB.
StridePositions == {i \in 0..(SampleWindow - 1) : i % SampleStride = 0}
\* The positions the scan reads: i and i + 1 for every stride position i
\* below bytesused.
ScannedPositions(b) ==
    UNION {{i, i + 1} : i \in {j \in StridePositions : j < b.bytesused}}
Checked(b) == b.ret \in {"blank", "content"}
Untouched(b) == DOMAIN b.written = {}

OwnedSubmissions(log) ==
    {k \in 1..Len(log) : log[k].type = "qbuf_out" /\ log[k].pool = "owned"}

\* C38: no output slot is submitted to the decoder's output queue while the
\* driver already owns it; in particular not by a start() that follows a
\* start() which failed after queuing the output slots.
C38_NoSlotQueuedTwice == OwnedSubmissions(last.log) = {}

\* ------------------------------------------------------------------- C39
\* Both vectors of a pool have count entries.
PoolSized(p, s) ==
    Len(s[p].in_use_) = count(p) /\ Len(s[p].buffers_) = count(p)

\* The pools' accessors can be reached: decodeData and flushDecoder may be
\* called, and with the device open they get past their first check to
\* get_free_buffer_index and get_info.
AccessorsReachable ==
    pc = "idle" /\ phase \in {"constructed", "ready"} /\ device_open

\* C39: in every state in which a pool's get_free_buffer_index, mark_in_use,
\* mark_free or get_info can be reached through the decoder's operations, the
\* pool's in_use vector and buffer vector each have exactly count entries.
C39_VectorsHaveCountEntries ==
    AccessorsReachable =>
        PoolSized("input_buffers_", Cur) /\ PoolSized("output_buffers_", Cur)

\* ------------------------------------------------------------------- C40
\* C40: decodeData returns failure only when the access unit was not handed
\* to the decoder: a call whose input enqueue succeeded returns success.
C40_EnqueuedMeansSuccess ==
    last.op = "decodeData" /\ Enqueues(last.log) # {} => last.ret = "true"

====
